---- MODULE Spec2Model ----
(***************************************************************************)
(* Terminal input decoder of the KeypressProvider (KeypressContext).       *)
(* Strings are sequences of one-character strings; the escape character   *)
(* is the token "ESC".                                                     *)
(***************************************************************************)
EXTENDS Integers, Sequences, FiniteSets, TLC

\* ------------------------------------------------------------------ bounds
\* Number of input units (key notifications or raw chunks) of one session.
MaxInputs == 3
\* Longest suffix tried when deciding whether a fragment can still be
\* extended into a recognized sequence.
MaxExt == 2

\* --------------------------------------------------------------- constants
ESC == "ESC"
PASTE_MODE_PREFIX == <<ESC, "[", "2", "0", "0", "~">>
PASTE_MODE_SUFFIX == <<ESC, "[", "2", "0", "1", "~">>
SINGLE_QUOTE == <<"'">>
DOUBLE_QUOTE == <<"\"">>
DRAG_COMPLETION_TIMEOUT_MS == 100
KITTY_SEQUENCE_TIMEOUT_MS == 50
WINDOWS_PASTE_TIMEOUT == 50
\* imported from ../hooks/useFocus.js
FOCUS_IN == <<ESC, "[", "I">>
FOCUS_OUT == <<ESC, "[", "O">>
\* imported from ../utils/platformConstants.js
KITTY_CTRL_C == <<"[", "9", "9", ";", "5", "u">>
CHAR_CODE_ESC == 27
KITTY_KEYCODE_TAB == 9
KITTY_KEYCODE_BACKSPACE == 127
KITTY_KEYCODE_ENTER == 13
KITTY_KEYCODE_NUMPAD_ENTER == 57414
MAX_KITTY_SEQUENCE_LENGTH == 32
KITTY_MODIFIER_BASE == 1
KITTY_MODIFIER_EVENT_TYPES_OFFSET == 128
MODIFIER_SHIFT_BIT == 1
MODIFIER_ALT_BIT == 2
MODIFIER_CTRL_BIT == 4

\* Precomposed characters produced by Option/Alt+letter, by code point.
ALT_KEY_CHARACTER_MAP ==
  [c \in {"U+00E5", "U+222B", "U+00E7", "U+2202", "U+00B4", "U+0192", "U+00A9",
          "U+02D9", "U+02C6", "U+2206", "U+02DA", "U+00AC", "U+00B5", "U+02DC",
          "U+00F8", "U+03C0", "U+0153", "U+00AE", "U+00DF", "U+2020", "U+00A8",
          "U+221A", "U+2211", "U+2248", "U+00A5", "U+03A9"} |->
     CASE c = "U+00E5" -> "a" [] c = "U+222B" -> "b" [] c = "U+00E7" -> "c"
       [] c = "U+2202" -> "d" [] c = "U+00B4" -> "e" [] c = "U+0192" -> "f"
       [] c = "U+00A9" -> "g" [] c = "U+02D9" -> "h" [] c = "U+02C6" -> "i"
       [] c = "U+2206" -> "j" [] c = "U+02DA" -> "k" [] c = "U+00AC" -> "l"
       [] c = "U+00B5" -> "m" [] c = "U+02DC" -> "n" [] c = "U+00F8" -> "o"
       [] c = "U+03C0" -> "p" [] c = "U+0153" -> "q" [] c = "U+00AE" -> "r"
       [] c = "U+00DF" -> "s" [] c = "U+2020" -> "t" [] c = "U+00A8" -> "u"
       [] c = "U+221A" -> "v" [] c = "U+2211" -> "w" [] c = "U+2248" -> "x"
       [] c = "U+00A5" -> "y" [] c = "U+03A9" -> "z"]

\* ------------------------------------------------------------ string helpers
Digits == {"0", "1", "2", "3", "4", "5", "6", "7", "8", "9"}

DigitVal(c) ==
  CASE c = "0" -> 0 [] c = "1" -> 1 [] c = "2" -> 2 [] c = "3" -> 3
    [] c = "4" -> 4 [] c = "5" -> 5 [] c = "6" -> 6 [] c = "7" -> 7
    [] c = "8" -> 8 [] c = "9" -> 9

Letters ==
  <<"a", "b", "c", "d", "e", "f", "g", "h", "i", "j", "k", "l", "m",
    "n", "o", "p", "q", "r", "s", "t", "u", "v", "w", "x", "y", "z">>

\* The character at a 1-based position, "" past the end.
At(s, i) == IF i >= 1 /\ i <= Len(s) THEN s[i] ELSE ""

StartsWith(s, p) == Len(s) >= Len(p) /\ SubSeq(s, 1, Len(p)) = p

EndsWith(s, p) == Len(s) >= Len(p) /\ SubSeq(s, Len(s) - Len(p) + 1, Len(s)) = p

Slice(s, from) == SubSeq(s, from, Len(s))

\* Number of consecutive digits of s from position i on (the greedy \d+).
RECURSIVE DigitRun(_, _)
DigitRun(s, i) == IF At(s, i) \in Digits THEN 1 + DigitRun(s, i + 1) ELSE 0

\* parseInt answers a double. Its values are kept exact up to LargeInt. A
\* digit run worth more is kept as LargeInt: as a key code it lies, like the
\* double, beyond every code the classifier compares with.
LargeInt == 99999999

\* The value of a digit run one digit longer.
ParseIntDigit(upper, digit) ==
  IF upper * 10 + digit > LargeInt THEN LargeInt ELSE upper * 10 + digit

\* parseInt(.., 10) of the n digits of s from position i on.
RECURSIVE ParseInt(_, _, _)
ParseInt(s, i, n) ==
  IF n = 0 THEN 0 ELSE ParseIntDigit(ParseInt(s, i, n - 1), DigitVal(s[i + n - 1]))

\* Position (1-based) of the first occurrence of pat in s at or after
\* position from, 0 when there is none (indexOf, which answers -1).
RECURSIVE IndexOf(_, _, _)
IndexOf(s, pat, from) ==
  IF from + Len(pat) - 1 > Len(s) THEN 0
  ELSE IF SubSeq(s, from, from + Len(pat) - 1) = pat THEN from
  ELSE IndexOf(s, pat, from + 1)

\* Position of c in the list cs, 0 when absent.
PosIn(cs, c) == IF \E i \in 1..Len(cs) : cs[i] = c
                  THEN CHOOSE i \in 1..Len(cs) : cs[i] = c ELSE 0

\* (bits & bit) === bit for a one-bit mask, on two's-complement integers.
HasBit(bits, bit) == (bits \div bit) % 2 = 1

\* ---------------------------------------------------------------- Key events
Key(name, ctrl, meta, shift, paste, sequence, kitty) ==
  [name |-> name, ctrl |-> ctrl, meta |-> meta, shift |-> shift,
   paste |-> paste, sequence |-> sequence, kittyProtocol |-> kitty]

\* { name: '', ctrl: false, meta: false, shift: false, paste: false, sequence }
RawEvent(sequence) == Key("", FALSE, FALSE, FALSE, FALSE, sequence, FALSE)

\* { name: '', ctrl: false, meta: false, shift: false, paste: true, sequence }
PasteEvent(sequence) == Key("", FALSE, FALSE, FALSE, TRUE, sequence, FALSE)

\* ------------------------------------------------- escape-sequence classifier
couldBeKittySequence(buffer) ==
  IF Len(buffer) = 0 THEN TRUE
  ELSE IF buffer = <<ESC>> \/ buffer = <<ESC, "[">> THEN TRUE
  ELSE IF ~StartsWith(buffer, <<ESC, "[">>) THEN FALSE
  ELSE IF At(buffer, 3) \in Digits THEN TRUE
  ELSE IF At(buffer, 3) \in {"A", "B", "C", "D", "H", "F", "P", "Q", "R", "S", "Z"} THEN TRUE
  ELSE IF At(buffer, 3) = "1" /\ At(buffer, 4) = ";" /\ At(buffer, 5) \in Digits THEN TRUE
  ELSE FALSE

NoMatch == [matched |-> FALSE, key |-> RawEvent(<<>>), length |-> 0]

\* A variant of Matched that consumes the whole buffer instead of the matched
\* prefix; C17 tells the two apart.
MatchedWhole(name, ctrl, meta, shift, buffer, length) ==
  [matched |-> TRUE,
   key |-> Key(name, ctrl, meta, shift, FALSE, buffer, TRUE),
   length |-> Len(buffer)]

Matched(name, ctrl, meta, shift, buffer, length) ==
  [matched |-> TRUE,
   key |-> Key(name, ctrl, meta, shift, FALSE, SubSeq(buffer, 1, length), TRUE),
   length |-> length]

\* A variant of ModifierBits that leaves the base value in; C18 tells the
\* two apart.
ModifierBitsUnbased(mods) ==
  IF mods >= KITTY_MODIFIER_EVENT_TYPES_OFFSET
    THEN mods - KITTY_MODIFIER_EVENT_TYPES_OFFSET ELSE mods

\* The modifier bitfield of a raw <mods> value.
ModifierBits(mods) ==
  (IF mods >= KITTY_MODIFIER_EVENT_TYPES_OFFSET
     THEN mods - KITTY_MODIFIER_EVENT_TYPES_OFFSET ELSE mods) - KITTY_MODIFIER_BASE

symbolToName(sym) ==
  CASE sym = "A" -> "up" [] sym = "B" -> "down" [] sym = "C" -> "right"
    [] sym = "D" -> "left" [] sym = "H" -> "home" [] sym = "F" -> "end"
    [] sym = "P" -> "f1" [] sym = "Q" -> "f2" [] sym = "R" -> "f3"
    [] sym = "S" -> "f4" [] OTHER -> ""

tildeName(keyCode) ==
  CASE keyCode = 1 -> "home" [] keyCode = 2 -> "insert" [] keyCode = 3 -> "delete"
    [] keyCode = 4 -> "end" [] keyCode = 5 -> "pageup" [] keyCode = 6 -> "pagedown"
    [] OTHER -> ""

kittyKeyCodeToName(keyCode) ==
  CASE keyCode = CHAR_CODE_ESC -> "escape"
    [] keyCode = KITTY_KEYCODE_TAB -> "tab"
    [] keyCode = KITTY_KEYCODE_BACKSPACE -> "backspace"
    [] keyCode = KITTY_KEYCODE_ENTER -> "return"
    [] keyCode = KITTY_KEYCODE_NUMPAD_ENTER -> "return"
    [] OTHER -> ""

\* 4) ESC [ (A|B|C|D|H|F)
legacyFuncKey(buffer) ==
  IF StartsWith(buffer, <<ESC, "[">>) /\ At(buffer, 3) \in {"A", "B", "C", "D", "H", "F"}
  THEN Matched(symbolToName(buffer[3]), FALSE, FALSE, FALSE, buffer, 3)
  ELSE NoMatch

\* The key of a sequence whose modifier bitfield is bits.
modifiedKey(name, bits, forceShift, buffer, length) ==
  Matched(name, HasBit(bits, MODIFIER_CTRL_BIT), HasBit(bits, MODIFIER_ALT_BIT),
          forceShift \/ HasBit(bits, MODIFIER_SHIFT_BIT), buffer, length)

\* Lines 401-486: the key of a matched ESC [ <code> (; <mods>)? (u|~), falling
\* through to 4) when the code names nothing.
csiUKey(buffer, keyCode, bits, terminator, length) ==
  IF terminator = "~" /\ tildeName(keyCode) # ""
    THEN modifiedKey(tildeName(keyCode), bits, FALSE, buffer, length)
  ELSE IF kittyKeyCodeToName(keyCode) # ""
    THEN modifiedKey(kittyKeyCodeToName(keyCode), bits, FALSE, buffer, length)
  ELSE IF (HasBit(bits, MODIFIER_CTRL_BIT) \/ HasBit(bits, MODIFIER_ALT_BIT))
            /\ keyCode >= 97 /\ keyCode <= 122
    THEN modifiedKey(Letters[keyCode - 96], bits, FALSE, buffer, length)
  ELSE legacyFuncKey(buffer)

\* 3) ESC [ <code> (; <mods>)? (u|~) with d1 digits of code and d2 of mods
csiUMatch(buffer, d1, d2) ==
  IF StartsWith(buffer, <<ESC, "[">>) /\ d1 >= 1 /\ At(buffer, 3 + d1) = ";" /\ d2 >= 1
       /\ At(buffer, 4 + d1 + d2) \in {"u", "~"}
  THEN csiUKey(buffer, ParseInt(buffer, 3, d1), ModifierBits(ParseInt(buffer, 4 + d1, d2)),
               buffer[4 + d1 + d2], 4 + d1 + d2)
  ELSE IF StartsWith(buffer, <<ESC, "[">>) /\ d1 >= 1 /\ At(buffer, 3 + d1) \in {"u", "~"}
  THEN csiUKey(buffer, ParseInt(buffer, 3, d1), ModifierBits(KITTY_MODIFIER_BASE),
               buffer[3 + d1], 3 + d1)
  ELSE legacyFuncKey(buffer)

csiUPrefix(buffer) ==
  csiUMatch(buffer, DigitRun(buffer, 3), DigitRun(buffer, 4 + DigitRun(buffer, 3)))

\* 0) - 2): the forms ESC [ Z and ESC [ 1 ; <mods> <letter>, d digits of mods
paramPrefix(buffer, d) ==
  \* 0) ESC [ Z
  IF StartsWith(buffer, <<ESC, "[", "Z">>)
    THEN Matched("tab", FALSE, FALSE, TRUE, buffer, 3)
  \* 1) ESC [ 1 ; <mods> Z (shift forced; ctrl and alt from mods)
  ELSE IF StartsWith(buffer, <<ESC, "[", "1", ";">>) /\ d >= 1 /\ At(buffer, 5 + d) = "Z"
    THEN modifiedKey("tab", ModifierBits(ParseInt(buffer, 5, d)), TRUE, buffer, 5 + d)
  \* 2) ESC [ 1 ; <mods> (A|B|C|D|H|F|P|Q|R|S)
  ELSE IF StartsWith(buffer, <<ESC, "[", "1", ";">>) /\ d >= 1
            /\ At(buffer, 5 + d) \in {"A", "B", "C", "D", "H", "F", "P", "Q", "S", "R"}
    THEN modifiedKey(symbolToName(buffer[5 + d]), ModifierBits(ParseInt(buffer, 5, d)),
                     FALSE, buffer, 5 + d)
  ELSE csiUPrefix(buffer)

parseKittyPrefix(buffer) == paramPrefix(buffer, DigitRun(buffer, 5))

\* ------------------------------------------------------------------- state
VARIABLES
  kittyProtocolEnabled,          \* prop of the provider
  config,                        \* whether a config object was supplied
  isWindows,                     \* os.platform() === 'win32'
  usePassthrough,                \* raw chunks are read and re-tokenized
  isPaste, pasteBuffer,
  kittySequenceBuffer,
  kittySequenceTimeout,          \* the scheduled timer, 0 for null; a timer is named by
                                 \* the number of the input unit that scheduled it
  backslashTimeout,              \* id of the timer the handle names, 0 for null
  backslashTimers,               \* scheduled, uncancelled backslash timers, oldest first
  waitingForEnterAfterBackslash,
  isDragging, dragBuffer,
  draggingTimer,                 \* the scheduled drag timer, 0 for none
  draggingKey,                   \* the key the scheduled drag callback closed over
  partialDataBuffer,
  windowsPasteBuffer, windowsPasteTimer, windowsPasteActive,
  emitted,                       \* every key handed to broadcast, in order
  overflowEvents,                \* what logKittySequenceOverflow was called with
  debugKeystrokeLogging,         \* prop of the provider
  debugMode,                     \* what config.getDebugMode() answers
  pasteDebugStream,              \* the paste debug log is open (line 50)
  debugLog,                      \* the source lines of the log statements that wrote, in order
  \* history kept for stating the claims
  emittedSrc,                    \* per emitted event: <<oldest, newest>> input unit it carries
  kittySrc, pasteSrc, dragSrc, partialSrc, windowsSrc, backslashSrc,
  received,                      \* all input received, concatenated
  nInputs,                       \* input units delivered so far
  torn,                          \* the effect cleanup has run
  last,                          \* the step taken last
  subscribers,                   \* the Set of handlers, in insertion order
  delivered,                     \* per handler: the events it was called with, in order
  reaction,                      \* per handler: what it does with the provider when called
  \* the classifier applied on its own
  parseInput,                    \* the buffer handed to parseKittyPrefix
  parseResult,                   \* what parseKittyPrefix answered for it
  \* GcpLogExporter
  exports,                       \* per call of export: its inputs, its write, its reports
  pendingWrites,                 \* this.pendingWrites, by number of the call of export
  flushes,                       \* per call of forceFlush or shutdown: what it awaits
  \* the settings file
  settingsFile,                  \* whether the file exists, and its text
  settingsCall,                  \* the last call made on it, and what it did
  \* the classification loop run on its own
  loopBuffer,                    \* remainingBuffer of the loop
  loopExit,                      \* "running", or how the loop was left
  iterations                     \* how often the body has run

vars ==
  <<kittyProtocolEnabled, config, isWindows, usePassthrough, isPaste, pasteBuffer,
    kittySequenceBuffer, kittySequenceTimeout, backslashTimeout, backslashTimers,
    waitingForEnterAfterBackslash, isDragging, dragBuffer, draggingTimer, draggingKey,
    partialDataBuffer, windowsPasteBuffer, windowsPasteTimer, windowsPasteActive,
    emitted, overflowEvents, emittedSrc, kittySrc, pasteSrc, dragSrc, partialSrc,
    windowsSrc, backslashSrc, received, nInputs, torn, last, subscribers, delivered,
    reaction, debugKeystrokeLogging, debugMode, pasteDebugStream, debugLog,
    parseInput, parseResult, exports, pendingWrites, flushes, settingsFile, settingsCall,
    loopBuffer, loopExit, iterations>>

NoSrc == <<0, 0>>

\* <<oldest, newest>> of a buffer that also takes input unit n.
Widen(src, n) == IF src = NoSrc THEN <<n, n>> ELSE <<src[1], n>>

\* <<oldest, newest>> of a per-character origin list.
SrcRange(origins) == IF origins = <<>> THEN NoSrc ELSE <<origins[1], origins[Len(origins)]>>

\* The mutable state the handlers work on, as one value.
Cur ==
  [isPaste |-> isPaste, pasteBuffer |-> pasteBuffer,
   kittySequenceBuffer |-> kittySequenceBuffer,
   kittySequenceTimeout |-> kittySequenceTimeout,
   backslashTimeout |-> backslashTimeout, backslashTimers |-> backslashTimers,
   waitingForEnterAfterBackslash |-> waitingForEnterAfterBackslash,
   isDragging |-> isDragging, dragBuffer |-> dragBuffer,
   draggingTimer |-> draggingTimer, draggingKey |-> draggingKey,
   partialDataBuffer |-> partialDataBuffer,
   windowsPasteBuffer |-> windowsPasteBuffer, windowsPasteTimer |-> windowsPasteTimer,
   windowsPasteActive |-> windowsPasteActive,
   emitted |-> emitted, overflowEvents |-> overflowEvents, emittedSrc |-> emittedSrc,
   kittySrc |-> kittySrc, pasteSrc |-> pasteSrc, dragSrc |-> dragSrc,
   partialSrc |-> partialSrc, windowsSrc |-> windowsSrc, backslashSrc |-> backslashSrc,
   subscribers |-> subscribers, delivered |-> delivered,
   debugKeystrokeLogging |-> debugKeystrokeLogging, debugMode |-> debugMode,
   pasteDebugStream |-> pasteDebugStream, debugLog |-> debugLog]

Becomes(s) ==
  /\ isPaste' = s.isPaste
  /\ pasteBuffer' = s.pasteBuffer
  /\ kittySequenceBuffer' = s.kittySequenceBuffer
  /\ kittySequenceTimeout' = s.kittySequenceTimeout
  /\ backslashTimeout' = s.backslashTimeout
  /\ backslashTimers' = s.backslashTimers
  /\ waitingForEnterAfterBackslash' = s.waitingForEnterAfterBackslash
  /\ isDragging' = s.isDragging
  /\ dragBuffer' = s.dragBuffer
  /\ draggingTimer' = s.draggingTimer
  /\ draggingKey' = s.draggingKey
  /\ partialDataBuffer' = s.partialDataBuffer
  /\ windowsPasteBuffer' = s.windowsPasteBuffer
  /\ windowsPasteTimer' = s.windowsPasteTimer
  /\ windowsPasteActive' = s.windowsPasteActive
  /\ emitted' = s.emitted
  /\ overflowEvents' = s.overflowEvents
  /\ emittedSrc' = s.emittedSrc
  /\ kittySrc' = s.kittySrc
  /\ pasteSrc' = s.pasteSrc
  /\ dragSrc' = s.dragSrc
  /\ partialSrc' = s.partialSrc
  /\ windowsSrc' = s.windowsSrc
  /\ backslashSrc' = s.backslashSrc
  /\ subscribers' = s.subscribers
  /\ delivered' = s.delivered
  /\ debugKeystrokeLogging' = s.debugKeystrokeLogging
  /\ debugMode' = s.debugMode
  /\ pasteDebugStream' = s.pasteDebugStream
  /\ debugLog' = s.debugLog

\* The handlers that subscribe.
Handlers == {"h1", "h2"}

\* What a handler may do with the provider while it is being called: nothing,
\* or one call of subscribe or unsubscribe (both are handed out to the
\* handlers' owners through the context).
NoReaction == [op |-> "none", handler |-> ""]

Reactions ==
  {NoReaction} \cup {[op |-> o, handler |-> h] : o \in {"subscribe", "unsubscribe"}, h \in Handlers}

\* A variant of subscribe that keeps one entry for every call, as a list of
\* handlers would; C23 tells the two apart.
subscribeAgain(s, handler) == [s EXCEPT !.subscribers = Append(@, handler)]

\* subscribers.add(handler): a Set keeps one entry, at its first position.
subscribe(s, handler) ==
  IF PosIn(s.subscribers, handler) # 0 THEN s
  ELSE [s EXCEPT !.subscribers = Append(@, handler)]

\* subscribers.delete(handler)
unsubscribe(s, handler) ==
  [s EXCEPT !.subscribers = SelectSeq(@, LAMBDA h : h # handler)]

\* The call a handler makes while it runs.
react(s, r) ==
  IF r.op = "subscribe" THEN subscribe(s, r.handler)
  ELSE IF r.op = "unsubscribe" THEN unsubscribe(s, r.handler)
  ELSE s

\* for (const handler of subscribers) handler(key), from the i-th entry on.
\* The iteration of a Set is live: an entry deleted before its turn is not
\* visited, an entry added during the iteration is.
RECURSIVE deliver(_, _, _)

\* handler(key) for the i-th entry, then the rest of the iteration; an entry
\* deleted at or before the i-th position moves the later ones up by one.
callHandler(s, key, i, handler) ==
  deliver(react([s EXCEPT !.delivered[handler] = Append(@, key)], reaction[handler]),
          key,
          IF reaction[handler].op = "unsubscribe"
               /\ PosIn(s.subscribers, reaction[handler].handler) \in 1..i
            THEN i ELSE i + 1)

deliver(s, key, i) ==
  IF i > Len(s.subscribers) THEN s ELSE callHandler(s, key, i, s.subscribers[i])

\* for (const handler of subscribers) handler(key)
broadcast(s, key, src) ==
  deliver([s EXCEPT !.emitted = Append(@, key), !.emittedSrc = Append(@, src)], key, 1)

\* A variant of the keystroke log statement that writes to the subscribers as
\* well as to the console; C24 tells the two apart.
consoleLogEchoing(s, line) ==
  IF s.debugKeystrokeLogging
  THEN broadcast([s EXCEPT !.debugLog = Append(@, line)], RawEvent(<<"l", "o", "g">>), NoSrc)
  ELSE s

\* if (debugKeystrokeLogging) console.log(...), the statement at the given line.
consoleLog(s, line) ==
  IF s.debugKeystrokeLogging THEN [s EXCEPT !.debugLog = Append(@, line)] ELSE s

\* Line 810: if (config?.getDebugMode() || debugKeystrokeLogging) console.warn(...)
consoleWarn(s, line) ==
  IF (config /\ s.debugMode) \/ s.debugKeystrokeLogging
  THEN [s EXCEPT !.debugLog = Append(@, line)] ELSE s

\* logPasteDebug(message, data), called at the given line: writes when the
\* stream is open.
logPasteDebug(s, line) ==
  IF s.pasteDebugStream THEN [s EXCEPT !.debugLog = Append(@, line)] ELSE s

\* A log statement that sits under a condition.
logPasteDebugWhen(s, cond, line) == IF cond THEN logPasteDebug(s, line) ELSE s

\* clearTimeout(backslashTimeout); backslashTimeout = null
clearBackslashTimeout(s) ==
  [s EXCEPT !.backslashTimers = SelectSeq(@, LAMBDA t : t.id # s.backslashTimeout),
            !.backslashTimeout = 0]

\* A variant of flushKittyBufferOnInterrupt that clears the pending buffer as
\* the Ctrl+C branch does, without broadcasting it; C10 tells the two apart.
flushKittyBufferSilently(s) ==
  [s EXCEPT !.kittySequenceBuffer = <<>>, !.kittySrc = <<>>, !.kittySequenceTimeout = 0]

flushKittyBufferOnInterrupt(s) ==
  LET flushed ==
        IF s.kittySequenceBuffer # <<>>
        THEN [broadcast(consoleLog(s, 528), RawEvent(s.kittySequenceBuffer),
                        SrcRange(s.kittySrc))
                EXCEPT !.kittySequenceBuffer = <<>>, !.kittySrc = <<>>]
        ELSE s
  IN [flushed EXCEPT !.kittySequenceTimeout = 0]

\* A variant of kittyOverflow that flushes the buffer without telling the
\* overflow collaborator; C20 tells the two apart.
kittyOverflowUnlogged(s, remainingBuffer, remainingSrc) ==
  broadcast(s, RawEvent(remainingBuffer), SrcRange(remainingSrc))

\* Lines 784-806: logKittySequenceOverflow when there is a config, then the
\* buffer broadcast as regular input.
kittyOverflow(s, remainingBuffer, remainingSrc) ==
  broadcast([s EXCEPT !.overflowEvents =
               IF config THEN Append(@, <<Len(remainingBuffer), remainingBuffer>>) ELSE @],
            RawEvent(remainingBuffer), SrcRange(remainingSrc))

\* The peel-and-continue loop (lines 728-840); answers the state, the
\* remaining buffer and parsedAny.
RECURSIVE kittyLoop(_, _, _, _, _)

\* A variant of the iteration that broadcasts what stands in front of a later
\* ESC as regular input instead of dropping it; C31 tells the two apart.
kittyLoopBodyFlushing(s, remainingBuffer, remainingSrc, parsedAny, n, parsed, nextEscIndex) ==
  IF parsed.matched
  THEN kittyLoop(broadcast(s, parsed.key, SrcRange(SubSeq(remainingSrc, 1, parsed.length))),
                 Slice(remainingBuffer, parsed.length + 1),
                 Slice(remainingSrc, parsed.length + 1), TRUE, n)
  ELSE IF nextEscIndex # 0
  THEN kittyLoop(broadcast(s, RawEvent(SubSeq(remainingBuffer, 1, nextEscIndex - 1)),
                           SrcRange(SubSeq(remainingSrc, 1, nextEscIndex - 1))),
                 Slice(remainingBuffer, nextEscIndex),
                 Slice(remainingSrc, nextEscIndex), TRUE, n)
  ELSE IF ~couldBeKittySequence(remainingBuffer)
  THEN kittyLoop(broadcast(s, RawEvent(remainingBuffer), SrcRange(remainingSrc)),
                 <<>>, <<>>, TRUE, n)
  ELSE IF Len(remainingBuffer) > MAX_KITTY_SEQUENCE_LENGTH
  THEN kittyLoop(kittyOverflow(s, remainingBuffer, remainingSrc), <<>>, <<>>, TRUE, n)
  ELSE [s |-> [s EXCEPT !.kittySequenceTimeout = n],
        remainingBuffer |-> remainingBuffer, remainingSrc |-> remainingSrc,
        parsedAny |-> parsedAny]

\* One iteration, parsed being parseKittyPrefix(remainingBuffer).
kittyLoopBody(s, remainingBuffer, remainingSrc, parsedAny, n, parsed, nextEscIndex) ==
  IF parsed.matched
  THEN kittyLoop(broadcast(consoleLog(s, 732), parsed.key,
                           SrcRange(SubSeq(remainingSrc, 1, parsed.length))),
                 Slice(remainingBuffer, parsed.length + 1),
                 Slice(remainingSrc, parsed.length + 1), TRUE, n)
  ELSE IF nextEscIndex # 0
  THEN kittyLoop(consoleLog(s, 750), Slice(remainingBuffer, nextEscIndex),
                 Slice(remainingSrc, nextEscIndex), parsedAny, n)
  ELSE IF ~couldBeKittySequence(remainingBuffer)
  THEN kittyLoop(broadcast(consoleLog(s, 767), RawEvent(remainingBuffer),
                           SrcRange(remainingSrc)),
                 <<>>, <<>>, TRUE, n)
  ELSE IF Len(remainingBuffer) > MAX_KITTY_SEQUENCE_LENGTH
  THEN kittyLoop(kittyOverflow(consoleLog(s, 785), remainingBuffer, remainingSrc),
                 <<>>, <<>>, TRUE, n)
  ELSE [s |-> [consoleWarn(s, 810) EXCEPT !.kittySequenceTimeout = n],
        remainingBuffer |-> remainingBuffer, remainingSrc |-> remainingSrc,
        parsedAny |-> parsedAny]

\* A variant of the loop that peels at most one sequence off the buffer and
\* holds the rest behind the timeout; C16 tells the two apart.
kittyLoopSingle(s, remainingBuffer, remainingSrc, parsedAny, n) ==
  IF remainingBuffer # <<>> /\ parseKittyPrefix(remainingBuffer).matched
  THEN [s |-> [broadcast(s, parseKittyPrefix(remainingBuffer).key, <<n, n>>)
                 EXCEPT !.kittySequenceTimeout = n],
        remainingBuffer |-> Slice(remainingBuffer, parseKittyPrefix(remainingBuffer).length + 1),
        remainingSrc |-> Slice(remainingSrc, parseKittyPrefix(remainingBuffer).length + 1),
        parsedAny |-> TRUE]
  ELSE [s |-> [s EXCEPT !.kittySequenceTimeout = n],
        remainingBuffer |-> remainingBuffer, remainingSrc |-> remainingSrc,
        parsedAny |-> parsedAny]

kittyLoop(s, remainingBuffer, remainingSrc, parsedAny, n) ==
  IF remainingBuffer = <<>>
  THEN [s |-> s, remainingBuffer |-> <<>>, remainingSrc |-> <<>>, parsedAny |-> parsedAny]
  ELSE kittyLoopBody(s, remainingBuffer, remainingSrc, parsedAny, n,
                     parseKittyPrefix(remainingBuffer), IndexOf(remainingBuffer, <<ESC>>, 2))

\* Lines 847-850: the default passthrough.
passthrough(s, key, n) ==
  broadcast(s, [key EXCEPT !.paste = s.isPaste,
                           !.meta = IF key.name = "return" /\ key.sequence = <<ESC, "\r">>
                                      THEN TRUE ELSE @],
            <<n, n>>)

\* Lines 842-850: after the loop, r being what the loop answered.
afterKittyLoop(r, key, n) ==
  IF r.parsedAny \/ r.remainingBuffer # <<>>
  THEN [r.s EXCEPT !.kittySequenceBuffer = r.remainingBuffer, !.kittySrc = r.remainingSrc]
  ELSE passthrough([r.s EXCEPT !.kittySequenceBuffer = r.remainingBuffer,
                               !.kittySrc = r.remainingSrc], key, n)

\* A variant of the accumulation that is entered for the sequences beginning
\* with ESC [ only; C38 tells the two apart.
kittyStageCsiOnly(s, key, n) ==
  IF kittyProtocolEnabled
  THEN IF s.kittySequenceBuffer # <<>>
            \/ (StartsWith(key.sequence, <<ESC, "[">>)
                  /\ ~\E prefix \in {PASTE_MODE_PREFIX, PASTE_MODE_SUFFIX, FOCUS_IN, FOCUS_OUT} :
                        StartsWith(key.sequence, prefix))
       THEN afterKittyLoop(
              kittyLoop(consoleLog([s EXCEPT !.kittySequenceTimeout = 0], 717),
                        s.kittySequenceBuffer \o key.sequence,
                        s.kittySrc \o [i \in 1..Len(key.sequence) |-> n], FALSE, n),
              key, n)
       ELSE passthrough([s EXCEPT !.kittySequenceTimeout = 0], key, n)
  ELSE passthrough(s, key, n)

\* Lines 698-850: escape-sequence accumulation, then the default passthrough.
kittyStage(s, key, n) ==
  IF kittyProtocolEnabled
  THEN IF s.kittySequenceBuffer # <<>>
            \/ (StartsWith(key.sequence, <<ESC>>)
                  /\ ~\E prefix \in {PASTE_MODE_PREFIX, PASTE_MODE_SUFFIX, FOCUS_IN, FOCUS_OUT} :
                        StartsWith(key.sequence, prefix))
       THEN afterKittyLoop(
              kittyLoop(consoleLog([s EXCEPT !.kittySequenceTimeout = 0], 717),
                        s.kittySequenceBuffer \o key.sequence,
                        s.kittySrc \o [i \in 1..Len(key.sequence) |-> n], FALSE, n),
              key, n)
       ELSE passthrough([s EXCEPT !.kittySequenceTimeout = 0], key, n)
  ELSE passthrough(s, key, n)

\* A variant without the arrow passthrough: a notification named after an
\* arrow goes through the escape accumulation like any other; C37 tells the
\* two apart.
dispatchStageWithoutArrows(s, key, n) ==
  IF (key.ctrl /\ key.name = "c") \/ key.sequence = <<ESC>> \o KITTY_CTRL_C
  THEN broadcast([s EXCEPT !.kittySequenceBuffer = <<>>, !.kittySrc = <<>>,
                           !.kittySequenceTimeout = 0],
                 IF key.sequence = <<ESC>> \o KITTY_CTRL_C
                   THEN Key("c", TRUE, FALSE, FALSE, FALSE, key.sequence, TRUE)
                   ELSE key,
                 <<n, n>>)
  ELSE kittyStage(s, key, n)

\* A variant of the Ctrl+C branch that clears the escape-sequence buffer and
\* leaves its timeout scheduled; C33 tells the two apart.
dispatchStageKeepingTimer(s, key, n) ==
  IF key.name \in {"up", "down", "left", "right"}
  THEN broadcast(s, key, <<n, n>>)
  ELSE IF (key.ctrl /\ key.name = "c") \/ key.sequence = <<ESC>> \o KITTY_CTRL_C
  THEN broadcast([s EXCEPT !.kittySequenceBuffer = <<>>, !.kittySrc = <<>>],
                 IF key.sequence = <<ESC>> \o KITTY_CTRL_C
                   THEN Key("c", TRUE, FALSE, FALSE, FALSE, key.sequence, TRUE)
                   ELSE key,
                 <<n, n>>)
  ELSE kittyStage(s, key, n)

\* Lines 662-696: arrow passthrough and Ctrl+C, then the escape-sequence stage.
dispatchStage(s, key, n) ==
  IF key.name \in {"up", "down", "left", "right"}
  THEN broadcast(s, key, <<n, n>>)
  ELSE IF (key.ctrl /\ key.name = "c") \/ key.sequence = <<ESC>> \o KITTY_CTRL_C
  THEN broadcast([(IF s.kittySequenceBuffer # <<>> THEN consoleLog(s, 671) ELSE s)
                    EXCEPT !.kittySequenceBuffer = <<>>, !.kittySrc = <<>>,
                           !.kittySequenceTimeout = 0],
                 IF key.sequence = <<ESC>> \o KITTY_CTRL_C
                   THEN Key("c", TRUE, FALSE, FALSE, FALSE, key.sequence, TRUE)
                   ELSE key,
                 <<n, n>>)
  ELSE kittyStage(s, key, n)

\* Lines 646-660: a waiting backslash is emitted when another key interrupts.
interruptStage(s, key, n) ==
  dispatchStage(
    IF s.waitingForEnterAfterBackslash /\ key.name # "return"
    THEN [broadcast(clearBackslashTimeout(s), RawEvent(<<"\\">>), s.backslashSrc)
            EXCEPT !.waitingForEnterAfterBackslash = FALSE, !.backslashSrc = NoSrc]
    ELSE s,
    key, n)

\* A variant of the paste-end branch that broadcasts the payload and forgets
\* to reset the payload buffer; C11 tells the two apart.
pasteEndKeepingPayload(s, n) ==
  [broadcast(s, PasteEvent(s.pasteBuffer), Widen(s.pasteSrc, n))
     EXCEPT !.isPaste = FALSE]

\* A variant of the paste-end branch that broadcasts only a payload that
\* holds text; C40 tells the two apart.
pasteEndWhenPayload(s, n) ==
  IF s.pasteBuffer # <<>>
  THEN [broadcast(s, PasteEvent(s.pasteBuffer), Widen(s.pasteSrc, n))
          EXCEPT !.isPaste = FALSE, !.pasteBuffer = <<>>, !.pasteSrc = NoSrc]
  ELSE [s EXCEPT !.isPaste = FALSE]

\* Lines 561-579: the paste-end branch of handleKeypress.
pasteEnd(s, n) ==
  [broadcast(logPasteDebug(logPasteDebug(s, 562), 565), PasteEvent(s.pasteBuffer),
             Widen(s.pasteSrc, n))
     EXCEPT !.isPaste = FALSE, !.pasteBuffer = <<>>, !.pasteSrc = NoSrc]

\* A variant of handleKeypress whose drag branch takes quotes only, so that
\* other keys are dispatched while a drag accumulates; C36 tells the two apart.
handleKeypressQuotesOnly(s, key, n) ==
  IF key.sequence = FOCUS_IN \/ key.sequence = FOCUS_OUT
  THEN flushKittyBufferOnInterrupt(s)
  ELSE IF key.name = "paste-start"
  THEN [flushKittyBufferOnInterrupt(logPasteDebug(s, 556)) EXCEPT !.isPaste = TRUE]
  ELSE IF key.name = "paste-end"
  THEN pasteEnd(s, n)
  ELSE IF s.isPaste
  THEN [logPasteDebug(s, 582) EXCEPT !.pasteBuffer = @ \o key.sequence,
                                     !.pasteSrc = Widen(@, n)]
  ELSE IF key.sequence = SINGLE_QUOTE \/ key.sequence = DOUBLE_QUOTE
  THEN [s EXCEPT !.isDragging = TRUE, !.dragBuffer = @ \o key.sequence,
                 !.dragSrc = Widen(@, n), !.draggingTimer = n, !.draggingKey = key]
  ELSE IF Len(key.sequence) = 1 /\ key.sequence[1] \in DOMAIN ALT_KEY_CHARACTER_MAP /\ ~key.meta
  THEN broadcast(s, Key(ALT_KEY_CHARACTER_MAP[key.sequence[1]], FALSE, TRUE, FALSE,
                        s.isPaste, key.sequence, FALSE), <<n, n>>)
  ELSE IF key.name = "return" /\ s.waitingForEnterAfterBackslash
  THEN [broadcast(clearBackslashTimeout(s), [key EXCEPT !.shift = TRUE, !.sequence = <<"\r">>],
                  Widen(s.backslashSrc, n))
          EXCEPT !.waitingForEnterAfterBackslash = FALSE, !.backslashSrc = NoSrc]
  ELSE IF key.sequence = <<"\\">> /\ key.name = ""
  THEN [s EXCEPT !.waitingForEnterAfterBackslash = TRUE, !.backslashTimeout = n,
                 !.backslashTimers = Append(@, [id |-> n, key |-> key]),
                 !.backslashSrc = <<n, n>>]
  ELSE interruptStage(s, key, n)

\* handleKeypress(_, key), for the n-th input unit.
handleKeypress(s, key, n) ==
  IF key.sequence = FOCUS_IN \/ key.sequence = FOCUS_OUT
  THEN flushKittyBufferOnInterrupt(s)
  ELSE IF key.name = "paste-start"
  THEN [flushKittyBufferOnInterrupt(logPasteDebug(s, 556)) EXCEPT !.isPaste = TRUE]
  ELSE IF key.name = "paste-end"
  THEN pasteEnd(s, n)
  ELSE IF s.isPaste
  THEN [logPasteDebug(s, 582) EXCEPT !.pasteBuffer = @ \o key.sequence,
                                     !.pasteSrc = Widen(@, n)]
  ELSE IF key.sequence = SINGLE_QUOTE \/ key.sequence = DOUBLE_QUOTE \/ s.isDragging
  THEN [s EXCEPT !.isDragging = TRUE, !.dragBuffer = @ \o key.sequence,
                 !.dragSrc = Widen(@, n), !.draggingTimer = n, !.draggingKey = key]
  ELSE IF Len(key.sequence) = 1 /\ key.sequence[1] \in DOMAIN ALT_KEY_CHARACTER_MAP /\ ~key.meta
  THEN broadcast(s, Key(ALT_KEY_CHARACTER_MAP[key.sequence[1]], FALSE, TRUE, FALSE,
                        s.isPaste, key.sequence, FALSE), <<n, n>>)
  ELSE IF key.name = "return" /\ s.waitingForEnterAfterBackslash
  THEN [broadcast(clearBackslashTimeout(s), [key EXCEPT !.shift = TRUE, !.sequence = <<"\r">>],
                  Widen(s.backslashSrc, n))
          EXCEPT !.waitingForEnterAfterBackslash = FALSE, !.backslashSrc = NoSrc]
  ELSE IF key.sequence = <<"\\">> /\ key.name = ""
  THEN [s EXCEPT !.waitingForEnterAfterBackslash = TRUE, !.backslashTimeout = n,
                 !.backslashTimers = Append(@, [id |-> n, key |-> key]),
                 !.backslashSrc = <<n, n>>]
  ELSE interruptStage(s, key, n)

\* ------------------------------------------------------------------ inputs
\* A notification as the base tokenizer delivers it.
Note(name, sequence) == Key(name, FALSE, FALSE, FALSE, FALSE, sequence, FALSE)

\* An unfinished CSI sequence of exactly MAX_KITTY_SEQUENCE_LENGTH characters:
\* ESC [ and a run of digits.
LongFragment == <<ESC, "[">> \o [i \in 1..(MAX_KITTY_SEQUENCE_LENGTH - 2) |-> "1"]

\* The key notifications fed to handleKeypress.
Keys ==
  { Note("a", <<"a">>),
    [Note("a", <<"A">>) EXCEPT !.shift = TRUE],
    Note("return", <<"\r">>),
    [Note("return", <<ESC, "\r">>) EXCEPT !.meta = TRUE],
    Note("", <<"\\">>),
    Note("", SINGLE_QUOTE),
    Note("", <<"U+00E5">>),
    Note("up", <<ESC, "[", "A">>),
    [Note("c", <<"^C">>) EXCEPT !.ctrl = TRUE],
    Note("", <<ESC>> \o KITTY_CTRL_C),
    [Note("escape", <<ESC>>) EXCEPT !.meta = TRUE],
    Note("", <<ESC, "[", "1", ";", "5">>),
    Note("", <<ESC, "[", "x">>),
    Note("f1", <<ESC, "[", "P">>),
    [Note("tab", <<ESC, "[", "Z">>) EXCEPT !.shift = TRUE],
    Note("", <<ESC, "[", "1", ";", "5", "A", ESC, "[", "Z">>),
    Note("", <<ESC, "[", "A", ESC, "[", "3", "~", ESC, "[", "1", "3", "u">>),
    Note("", LongFragment),
    Note("", FOCUS_IN),
    Note("", FOCUS_OUT),
    Note("paste-start", PASTE_MODE_PREFIX),
    Note("paste-end", PASTE_MODE_SUFFIX) }

NoKey == RawEvent(<<>>)

\* A step: the handler or callback run, its input, and how many events had
\* been broadcast before it.
Step(op, key, data) == [op |-> op, key |-> key, data |-> data, before |-> Len(emitted)]

\* ------------------------------------------------------------------- actions
Constructed ==
  /\ config \in BOOLEAN
  /\ isPaste = FALSE
  /\ pasteBuffer = <<>>
  /\ kittySequenceBuffer = <<>>
  /\ kittySequenceTimeout = 0
  /\ backslashTimeout = 0
  /\ backslashTimers = <<>>
  /\ waitingForEnterAfterBackslash = FALSE
  /\ isDragging = FALSE
  /\ dragBuffer = <<>>
  /\ draggingTimer = 0
  /\ draggingKey = NoKey
  /\ partialDataBuffer = <<>>
  /\ windowsPasteBuffer = <<>>
  /\ windowsPasteTimer = 0
  /\ windowsPasteActive = FALSE
  /\ emitted = <<>>
  /\ overflowEvents = <<>>
  /\ emittedSrc = <<>>
  /\ kittySrc = <<>>
  /\ pasteSrc = NoSrc
  /\ dragSrc = NoSrc
  /\ partialSrc = NoSrc
  /\ windowsSrc = NoSrc
  /\ backslashSrc = NoSrc
  /\ received = <<>>
  /\ nInputs = 0
  /\ torn = FALSE
  /\ last = [op |-> "init", key |-> NoKey, data |-> <<>>, before |-> 0]
  /\ subscribers = <<>>
  /\ delivered = [h \in Handlers |-> <<>>]

\* No debug setting is on and nothing was logged.
DebugOff ==
  /\ debugKeystrokeLogging = FALSE
  /\ debugMode = FALSE
  /\ pasteDebugStream = FALSE
  /\ debugLog = <<>>

\* The handlers make no call of their own.
QuietHandlers == reaction = [h \in Handlers |-> NoReaction]

\* parseKittyPrefix is not applied on its own.
ParseIdle == parseInput = <<>> /\ parseResult = NoMatch

\* The GcpLogExporter and what it has not done when it is not used.
ExporterVars == <<exports, pendingWrites, flushes>>

ExporterIdle == exports = <<>> /\ pendingWrites = <<>> /\ flushes = <<>>

\* The settings file and the calls made on it.
FileVars == <<settingsFile, settingsCall>>

\* No settings file, and no call made on it.
FileIdle ==
  /\ settingsFile = [exists |-> FALSE, content |-> <<>>]
  /\ settingsCall = [op |-> "none", updates |-> [isObject |-> TRUE, str |-> "", members |-> <<>>],
                     existed |-> FALSE, before |-> <<>>, threw |-> FALSE, errors |-> 0]

\* The classification loop run on its own.
LoopVars == <<loopBuffer, loopExit, iterations>>

\* The loop has not been entered.
LoopIdle == loopBuffer = <<>> /\ loopExit = "none" /\ iterations = 0

\* What only the other specifications change.
Elsewhere == <<parseInput, parseResult, ExporterVars, FileVars, LoopVars>>

\* Direct mode: stdin.on('keypress', handleKeypress).
Init ==
  /\ kittyProtocolEnabled \in BOOLEAN
  /\ isWindows = FALSE          \* read by handleRawKeypress only
  /\ usePassthrough = FALSE
  /\ Constructed
  /\ DebugOff
  /\ QuietHandlers
  /\ ExporterIdle
  /\ FileIdle
  /\ LoopIdle
  /\ ParseIdle

Settings == <<kittyProtocolEnabled, config, isWindows, usePassthrough, reaction>>

\* One 'keypress' event of stdin reaches handleKeypress, in a run of at most
\* limit input units.
KeypressWithin(limit) ==
  /\ ~torn
  /\ ~usePassthrough
  /\ nInputs < limit
  /\ \E key \in Keys :
       /\ Becomes(handleKeypress(Cur, key, nInputs + 1))
       /\ received' = received \o key.sequence
       /\ last' = Step("keypress", key, <<>>)
  /\ nInputs' = nInputs + 1
  /\ UNCHANGED <<Settings, Elsewhere, torn>>

Keypress == KeypressWithin(MaxInputs)

\* Timers run in the order of their expiry: a timer does not run while one
\* that was scheduled no later, with a delay no longer, is still pending.
\* (The backslash window is imported; its timers are left unordered.)
Blocked(delay, at, otherDelay, otherAt) ==
  otherAt # 0 /\ otherAt <= at /\ otherDelay <= delay

\* A variant of the timeout callback that broadcasts the buffer and forgets to
\* clear it; C4 tells the two apart.
kittyTimeoutCallbackKeeping(s) ==
  IF s.kittySequenceBuffer # <<>>
  THEN [broadcast(s, RawEvent(s.kittySequenceBuffer), SrcRange(s.kittySrc))
          EXCEPT !.kittySequenceTimeout = 0]
  ELSE [s EXCEPT !.kittySequenceTimeout = 0]

\* Lines 817-836: the callback of kittySequenceTimeout.
kittyTimeoutCallback(s) ==
  IF s.kittySequenceBuffer # <<>>
  THEN [broadcast(consoleLog(s, 819), RawEvent(s.kittySequenceBuffer), SrcRange(s.kittySrc))
          EXCEPT !.kittySequenceBuffer = <<>>, !.kittySrc = <<>>, !.kittySequenceTimeout = 0]
  ELSE [s EXCEPT !.kittySequenceTimeout = 0]

KittyTimeoutFires ==
  /\ kittySequenceTimeout # 0
  /\ ~Blocked(KITTY_SEQUENCE_TIMEOUT_MS, kittySequenceTimeout,
              WINDOWS_PASTE_TIMEOUT, windowsPasteTimer)
  /\ Becomes(kittyTimeoutCallback(Cur))
  /\ last' = Step("kittyTimeout", NoKey, <<>>)
  /\ UNCHANGED <<Settings, Elsewhere, received, nInputs, torn>>

\* Lines 638-642: the callback of a backslash timer, t being the timer.
backslashTimeoutCallback(s, t) ==
  [broadcast(s, t.key, <<t.id, t.id>>)
     EXCEPT !.waitingForEnterAfterBackslash = FALSE, !.backslashTimeout = 0,
            !.backslashTimers = Tail(@), !.backslashSrc = NoSrc]

\* The oldest scheduled backslash timer runs.
BackslashTimeoutFires ==
  /\ backslashTimers # <<>>
  /\ Becomes(backslashTimeoutCallback(Cur, Head(backslashTimers)))
  /\ last' = Step("backslashTimeout", NoKey, <<>>)
  /\ UNCHANGED <<Settings, Elsewhere, received, nInputs, torn>>

\* A variant of the drag callback that broadcasts the buffer and stays in
\* drag mode; C21 tells the two apart.
dragTimeoutCallbackStaying(s) ==
  IF s.dragBuffer # <<>>
  THEN [broadcast(s, [s.draggingKey EXCEPT !.name = "", !.paste = TRUE,
                                           !.sequence = s.dragBuffer], s.dragSrc)
          EXCEPT !.dragBuffer = <<>>, !.dragSrc = NoSrc,
                 !.draggingTimer = 0, !.draggingKey = NoKey]
  ELSE [s EXCEPT !.dragBuffer = <<>>, !.dragSrc = NoSrc,
                 !.draggingTimer = 0, !.draggingKey = NoKey]

\* A variant of the drag callback that keeps the name of the key it closed
\* over; C25 tells the two apart.
dragTimeoutCallbackNamed(s) ==
  IF s.dragBuffer # <<>>
  THEN [broadcast(s, [s.draggingKey EXCEPT !.paste = TRUE, !.sequence = s.dragBuffer],
                  s.dragSrc)
          EXCEPT !.isDragging = FALSE, !.dragBuffer = <<>>, !.dragSrc = NoSrc,
                 !.draggingTimer = 0, !.draggingKey = NoKey]
  ELSE [s EXCEPT !.isDragging = FALSE, !.dragBuffer = <<>>, !.dragSrc = NoSrc,
                 !.draggingTimer = 0, !.draggingKey = NoKey]

\* Lines 596-603: the callback of draggingTimerRef.
dragTimeoutCallback(s) ==
  IF s.dragBuffer # <<>>
  THEN [broadcast(s, [s.draggingKey EXCEPT !.name = "", !.paste = TRUE,
                                           !.sequence = s.dragBuffer], s.dragSrc)
          EXCEPT !.isDragging = FALSE, !.dragBuffer = <<>>, !.dragSrc = NoSrc,
                 !.draggingTimer = 0, !.draggingKey = NoKey]
  ELSE [s EXCEPT !.isDragging = FALSE, !.dragBuffer = <<>>, !.dragSrc = NoSrc,
                 !.draggingTimer = 0, !.draggingKey = NoKey]

DragTimerFires ==
  /\ draggingTimer # 0
  /\ ~Blocked(DRAG_COMPLETION_TIMEOUT_MS, draggingTimer,
              KITTY_SEQUENCE_TIMEOUT_MS, kittySequenceTimeout)
  /\ ~Blocked(DRAG_COMPLETION_TIMEOUT_MS, draggingTimer,
              WINDOWS_PASTE_TIMEOUT, windowsPasteTimer)
  /\ Becomes(dragTimeoutCallback(Cur))
  /\ last' = Step("dragTimeout", NoKey, <<>>)
  /\ UNCHANGED <<Settings, Elsewhere, received, nInputs, torn>>

\* A variant of the cleanup that flushes the drag buffer first, before the
\* escape-sequence buffer and the paste payload; C6 tells the two apart.
cleanupDragFirst(s) ==
  LET s1 == [clearBackslashTimeout(s) EXCEPT !.kittySequenceTimeout = 0,
               !.draggingTimer = 0, !.draggingKey = NoKey,
               !.windowsPasteTimer = 0, !.windowsPasteBuffer = <<>>,
               !.windowsSrc = NoSrc, !.windowsPasteActive = FALSE]
      s2 == IF s1.isDragging /\ s1.dragBuffer # <<>>
            THEN [broadcast(s1, PasteEvent(s1.dragBuffer), s1.dragSrc)
                    EXCEPT !.isDragging = FALSE, !.dragBuffer = <<>>, !.dragSrc = NoSrc]
            ELSE s1
      s3 == IF s2.kittySequenceBuffer # <<>>
            THEN [broadcast(s2, RawEvent(s2.kittySequenceBuffer), SrcRange(s2.kittySrc))
                    EXCEPT !.kittySequenceBuffer = <<>>, !.kittySrc = <<>>]
            ELSE s2
  IN IF s3.isPaste
     THEN [broadcast(s3, PasteEvent(s3.pasteBuffer), s3.pasteSrc)
             EXCEPT !.pasteBuffer = <<>>, !.pasteSrc = NoSrc]
     ELSE s3

\* The effect cleanup (lines 1187-1272).
cleanup(s) ==
  LET s1 == [clearBackslashTimeout(s) EXCEPT !.kittySequenceTimeout = 0]
      s2 == IF s1.kittySequenceBuffer # <<>>
            THEN [broadcast(s1, RawEvent(s1.kittySequenceBuffer), SrcRange(s1.kittySrc))
                    EXCEPT !.kittySequenceBuffer = <<>>, !.kittySrc = <<>>]
            ELSE s1
      s3 == IF s2.isPaste
            THEN [broadcast(logPasteDebug(s2, 1227), PasteEvent(s2.pasteBuffer), s2.pasteSrc)
                    EXCEPT !.pasteBuffer = <<>>, !.pasteSrc = NoSrc]
            ELSE s2
      s4 == [s3 EXCEPT !.windowsPasteTimer = 0, !.windowsPasteBuffer = <<>>,
                       !.windowsSrc = NoSrc, !.windowsPasteActive = FALSE]
      s5 == [logPasteDebug(s4, 1249) EXCEPT !.pasteDebugStream = FALSE,
                                            !.draggingTimer = 0, !.draggingKey = NoKey]
  IN IF s5.isDragging /\ s5.dragBuffer # <<>>
     THEN [broadcast(s5, PasteEvent(s5.dragBuffer), s5.dragSrc)
             EXCEPT !.isDragging = FALSE, !.dragBuffer = <<>>, !.dragSrc = NoSrc]
     ELSE s5

Teardown ==
  /\ ~torn
  /\ Becomes(cleanup(Cur))
  /\ torn' = TRUE
  /\ last' = Step("teardown", NoKey, <<>>)
  /\ UNCHANGED <<Settings, Elsewhere, received, nInputs>>

\* ------------------------------------------------------- passthrough mode
UpperLetters ==
  <<"A", "B", "C", "D", "E", "F", "G", "H", "I", "J", "K", "L", "M",
    "N", "O", "P", "Q", "R", "S", "T", "U", "V", "W", "X", "Y", "Z">>

\* The notification readline's tokenizer makes of one ordinary character.
charKey(c, sequence, meta) ==
  IF c = "\r" THEN [Note("return", sequence) EXCEPT !.meta = meta]
  ELSE IF c = "\n" THEN [Note("enter", sequence) EXCEPT !.meta = meta]
  ELSE IF c = "\t" THEN [Note("tab", sequence) EXCEPT !.meta = meta]
  ELSE IF c = "^C" THEN [Note("c", sequence) EXCEPT !.ctrl = TRUE, !.meta = meta]
  ELSE IF PosIn(Letters, c) # 0 THEN [Note(c, sequence) EXCEPT !.meta = meta]
  ELSE IF PosIn(UpperLetters, c) # 0
    THEN [Note(Letters[PosIn(UpperLetters, c)], sequence) EXCEPT !.shift = TRUE, !.meta = meta]
  ELSE [Note("", sequence) EXCEPT !.meta = meta]

\* The notification readline's tokenizer makes of ESC [ <params> <final>.
csiKey(params, final, sequence, meta) ==
  LET semi == PosIn(params, ";")
      code == IF semi = 0 THEN params ELSE SubSeq(params, 1, semi - 1)
      mods == IF semi # 0 /\ Len(params) = semi + 1 /\ params[semi + 1] \in Digits
                THEN DigitVal(params[semi + 1]) - 1 ELSE 0
      name == IF final = "~"
                THEN (IF code = <<"2", "0", "0">> THEN "paste-start"
                      ELSE IF code = <<"2", "0", "1">> THEN "paste-end"
                      ELSE IF DigitRun(code, 1) = Len(code) /\ Len(code) >= 1
                        THEN tildeName(ParseInt(code, 1, Len(code)))
                      ELSE "")
              ELSE IF final = "Z" THEN "tab"
              ELSE IF code \in {<<>>, <<"1">>} THEN symbolToName(final)
              ELSE ""
  IN [Note(name, sequence) EXCEPT
        !.shift = HasBit(mods, 1) \/ final = "Z",
        !.meta = meta \/ HasBit(mods, 2) \/ HasBit(mods, 8),
        !.ctrl = HasBit(mods, 4)]

\* Number of leading characters of s from position i on that are CSI parameters.
RECURSIVE ParamRun(_, _)
ParamRun(s, i) == IF At(s, i) \in Digits \cup {";"} THEN 1 + ParamRun(s, i + 1) ELSE 0

\* readline.emitKeypressEvents on the passthrough stream: the 'keypress'
\* notifications made of one written chunk, from position i on.
RECURSIVE emitKeys(_, _)
emitKeys(data, i) ==
  IF i > Len(data) THEN <<>>
  ELSE IF data[i] = ESC
  THEN LET e == IF At(data, i + 1) = ESC THEN 2 ELSE 1   \* ESC ESC is meta
           j == i + e
           p == ParamRun(data, j + 1)
           f == j + 1 + p
       IN IF At(data, j) = "["
          THEN IF f > Len(data)
               THEN <<[Note("", Slice(data, i)) EXCEPT !.meta = (e = 2)]>>
               ELSE <<csiKey(SubSeq(data, j + 1, f - 1), data[f], SubSeq(data, i, f), e = 2)>>
                      \o emitKeys(data, f + 1)
          ELSE IF j > Len(data)
          THEN <<[Note("escape", Slice(data, i)) EXCEPT !.meta = TRUE]>>
          ELSE <<charKey(data[j], SubSeq(data, i, j), TRUE)>> \o emitKeys(data, j + 1)
  ELSE <<charKey(data[i], <<data[i]>>, FALSE)>> \o emitKeys(data, i + 1)

\* handleKeypress on each notification of a list, in order.
RECURSIVE handleAll(_, _, _)
handleAll(s, keys, n) ==
  IF keys = <<>> THEN s ELSE handleAll(handleKeypress(s, Head(keys), n), Tail(keys), n)

\* keypressStream.write(data), with the 'keypress' listener run on its output.
write(s, data, n) == handleAll(s, emitKeys(data, 1), n)

Includes(s, c) == \E i \in 1..Len(s) : s[i] = c

\* /^\x1b\[1;\d+[ABCDHF]/
ModifiedArrowPrefix(str) ==
  /\ StartsWith(str, <<ESC, "[", "1", ";">>)
  /\ DigitRun(str, 5) >= 1
  /\ At(str, 5 + DigitRun(str, 5)) \in {"A", "B", "C", "D", "H", "F"}

\* /^\x1b\[\d+~/
TildePrefix(str) ==
  /\ StartsWith(str, <<ESC, "[">>)
  /\ DigitRun(str, 3) >= 1
  /\ At(str, 3 + DigitRun(str, 3)) = "~"

\* Lines 870-895.
isSpecialKey(dataStr) ==
  \/ StartsWith(dataStr, <<ESC>>) /\ Len(dataStr) <= 10
  \/ dataStr \in {<<"^C">>, <<"^Z">>, <<"^D">>, <<"\t">>, <<"\r">>, <<"\n">>}
  \/ dataStr \in {<<ESC, "[", c>> : c \in {"A", "B", "C", "D", "H", "F"}}
  \/ ModifiedArrowPrefix(dataStr)
  \/ TildePrefix(dataStr)

\* Lines 1065-1075.
isCompleteSpecialKey(remainingStr) ==
  \/ remainingStr \in {<<ESC, "[", c>> : c \in {"A", "B", "C", "D", "H", "F"}}
  \/ ModifiedArrowPrefix(remainingStr)
       /\ Len(remainingStr) = 5 + DigitRun(remainingStr, 5)
  \/ TildePrefix(remainingStr) /\ Len(remainingStr) = 3 + DigitRun(remainingStr, 3)

\* Lines 1083-1091.
looksLikePartialMarker(remainingStr) ==
  /\ Len(remainingStr) < 10
  /\ \/ Includes(remainingStr, ESC)
     \/ EndsWith(remainingStr, <<ESC>>)
     \/ EndsWith(remainingStr, <<ESC, "[">>)
     \/ EndsWith(remainingStr, <<ESC, "[", "2">>)
     \/ EndsWith(remainingStr, <<ESC, "[", "2", "0">>)
     \/ EndsWith(remainingStr, <<ESC, "[", "2", "0", "0">>)

\* A variant of createPasteKeyEvent that loses the name of the marker; C12
\* tells the two apart.
createUnnamedKeyEvent(name) == Note("", <<>>)

\* paste-start / paste-end as handleRawKeypress makes them (lines 1131-1140).
createPasteKeyEvent(name) == Note(name, <<>>)

\* Lines 1147-1152 and 1156-1161.
resetWindowsPaste(s, active) ==
  [s EXCEPT !.windowsPasteActive = active, !.windowsPasteBuffer = <<>>,
            !.windowsSrc = NoSrc, !.windowsPasteTimer = 0]

\* The marker scan of lines 1030-1165, from position pos of fullData on.
RECURSIVE markerLoop(_, _, _, _, _)

\* Lines 1142-1164: the marker at nextMarkerPos, s1 being the state after the
\* data before it was written.
markerFound(s1, fullData, isPrefixNext, nextMarkerPos, n, fastData) ==
  markerLoop(
    resetWindowsPaste(
      handleKeypress(logPasteDebug(s1, IF isPrefixNext THEN 1143 ELSE 1154),
                     createPasteKeyEvent(IF isPrefixNext THEN "paste-start" ELSE "paste-end"),
                     n),
      isPrefixNext),
    fullData,
    nextMarkerPos + (IF isPrefixNext THEN Len(PASTE_MODE_PREFIX) ELSE Len(PASTE_MODE_SUFFIX)),
    n, fastData)

\* Lines 1039-1129, prefixPos and suffixPos being the next markers (0: none).
markerScan(s, fullData, pos, n, fastData, prefixPos, suffixPos) ==
  IF prefixPos = 0 /\ suffixPos = 0
  THEN IF isWindows /\ ~isCompleteSpecialKey(Slice(fullData, pos))
                    /\ looksLikePartialMarker(Slice(fullData, pos))
       THEN [logPasteDebug(s, 1092)
               EXCEPT !.partialDataBuffer = Slice(fullData, pos), !.partialSrc = <<n, n>>]
       ELSE IF isWindows /\ s.isPaste /\ fastData
       THEN [logPasteDebug(
               logPasteDebugWhen(s, isCompleteSpecialKey(Slice(fullData, pos)), 1078), 1104)
               EXCEPT !.partialDataBuffer = Slice(fullData, pos), !.partialSrc = <<n, n>>]
       ELSE write(logPasteDebug(
                    logPasteDebugWhen(
                      s, isWindows /\ isCompleteSpecialKey(Slice(fullData, pos)), 1078),
                    1113),
                  Slice(fullData, pos), n)
  ELSE IF prefixPos # 0 /\ (suffixPos = 0 \/ prefixPos < suffixPos)
  THEN markerFound(write(logPasteDebugWhen(s, prefixPos > pos, 1124),
                         SubSeq(fullData, pos, prefixPos - 1), n),
                   fullData, TRUE, prefixPos, n, fastData)
  ELSE markerFound(write(logPasteDebugWhen(s, suffixPos > pos, 1124),
                         SubSeq(fullData, pos, suffixPos - 1), n),
                   fullData, FALSE, suffixPos, n, fastData)

markerLoop(s, fullData, pos, n, fastData) ==
  IF pos > Len(fullData) THEN s
  ELSE markerScan(logPasteDebug(s, 1035), fullData, pos, n, fastData,
                  IndexOf(fullData, PASTE_MODE_PREFIX, pos),
                  IndexOf(fullData, PASTE_MODE_SUFFIX, pos))

\* Lines 1018-1025, then the marker scan.
combineAndScan(s, data, n, fastData) ==
  markerLoop([logPasteDebugWhen(s, s.partialDataBuffer # <<>>, 1022)
                EXCEPT !.partialDataBuffer = <<>>, !.partialSrc = NoSrc],
             s.partialDataBuffer \o data, 1,
             IF s.partialDataBuffer # <<>> THEN s.partialSrc[1] ELSE n, fastData)

\* A variant of flushWindowsPaste that broadcasts the heuristic buffer and
\* leaves it, and its timer, in place; C22 tells the two apart.
flushWindowsPasteKeepingTimer(s, onlyIfActive) ==
  IF (~onlyIfActive \/ s.windowsPasteActive) /\ s.windowsPasteBuffer # <<>>
  THEN broadcast(s, PasteEvent(s.windowsPasteBuffer), s.windowsSrc)
  ELSE s

\* A broadcast of the heuristic buffer as one paste event, when it holds text.
flushWindowsPaste(s, onlyIfActive) ==
  LET flushed == IF (~onlyIfActive \/ s.windowsPasteActive) /\ s.windowsPasteBuffer # <<>>
                 THEN broadcast(s, PasteEvent(s.windowsPasteBuffer), s.windowsSrc)
                 ELSE s
  IN [flushed EXCEPT !.windowsPasteBuffer = <<>>, !.windowsSrc = NoSrc,
                     !.windowsPasteTimer = 0, !.windowsPasteActive = FALSE]

\* Lines 925-938: the held-back bytes, then the special key, are written.
writeSpecialKey(s, data, n) ==
  write(logPasteDebug(
          IF s.partialDataBuffer # <<>>
            THEN [write(logPasteDebug(s, 927), s.partialDataBuffer, s.partialSrc[1])
                    EXCEPT !.partialDataBuffer = <<>>, !.partialSrc = NoSrc]
            ELSE s,
          936),
        data, n)

\* Lines 864-1165: the Windows paste detection, then the marker scan.
windowsPasteDetection(s, data, n, fastData, fastWindows) ==
  IF isWindows /\ ~s.isPaste /\ usePassthrough /\ isSpecialKey(data)
  THEN writeSpecialKey(
         flushWindowsPaste(
           logPasteDebugWhen(logPasteDebug(s, 899),
                             s.windowsPasteActive /\ s.windowsPasteBuffer # <<>>, 910),
           TRUE),
         data, n)
  ELSE IF isWindows /\ ~s.isPaste /\ usePassthrough
            /\ (\/ ~s.windowsPasteActive /\ Len(data) > 3
                \/ s.windowsPasteActive /\ fastWindows
                \/ Includes(data, "\r") /\ Len(data) > 10)
  THEN [logPasteDebug(s, 948)
          EXCEPT !.windowsPasteBuffer = @ \o data, !.windowsSrc = Widen(@, n),
                 !.windowsPasteActive = TRUE, !.windowsPasteTimer = n]
  ELSE combineAndScan(
         IF isWindows /\ ~s.isPaste /\ usePassthrough /\ s.windowsPasteTimer # 0
           THEN flushWindowsPaste(
                  logPasteDebugWhen(logPasteDebug(s, 991), s.windowsPasteBuffer # <<>>, 997),
                  FALSE)
           ELSE s,
         data, n, fastData)

\* handleRawKeypress(data) for the n-th chunk; fastData: less than 50 ms since
\* the previous chunk; fastWindows: less than 200 ms since the last buffered one.
handleRawKeypress(s, data, n, fastData, fastWindows) ==
  windowsPasteDetection(logPasteDebug(s, 858), data, n, fastData, fastWindows)

\* The raw chunks stdin delivers.
Chunks ==
  { <<"a">>, <<"\\">>, SINGLE_QUOTE, <<"a", "b", "c", "d">>,
    <<"h", "e", "l", "l", "o">>,
    <<ESC, "[", "A">>, <<ESC, "[", "1", ";", "5">>, <<"^C">>,
    <<ESC, "[", "2", "0">>, <<"0", "~", "h", "i">>,
    PASTE_MODE_PREFIX, PASTE_MODE_SUFFIX }

\* Passthrough mode: stdin.on('data', handleRawKeypress).
InitRaw ==
  /\ kittyProtocolEnabled \in BOOLEAN
  /\ isWindows \in BOOLEAN
  /\ usePassthrough = TRUE
  /\ Constructed
  /\ DebugOff
  /\ QuietHandlers
  /\ ExporterIdle
  /\ FileIdle
  /\ LoopIdle
  /\ ParseIdle

\* One 'data' event of stdin reaches handleRawKeypress, in a run of at most
\* limit input units.
RawDataWithin(limit) ==
  /\ ~torn
  /\ usePassthrough
  /\ nInputs < limit
  /\ \E data \in Chunks, fastData \in BOOLEAN, fastWindows \in BOOLEAN :
       /\ Becomes(handleRawKeypress(Cur, data, nInputs + 1, fastData, fastWindows))
       /\ received' = received \o data
       /\ last' = Step("data", NoKey, data)
  /\ nInputs' = nInputs + 1
  /\ UNCHANGED <<Settings, Elsewhere, torn>>

RawData == RawDataWithin(MaxInputs)

\* Lines 963-984: the callback of windowsPasteTimer.
windowsPasteTimeoutCallback(s) ==
  IF s.windowsPasteBuffer # <<>>
  THEN [broadcast(logPasteDebug(logPasteDebug(s, 965), 970),
                  PasteEvent(s.windowsPasteBuffer), s.windowsSrc)
          EXCEPT !.windowsPasteBuffer = <<>>, !.windowsSrc = NoSrc,
                 !.windowsPasteTimer = 0, !.windowsPasteActive = FALSE]
  ELSE [s EXCEPT !.windowsPasteTimer = 0]

WindowsPasteTimerFires ==
  /\ windowsPasteTimer # 0
  /\ ~Blocked(WINDOWS_PASTE_TIMEOUT, windowsPasteTimer,
              KITTY_SEQUENCE_TIMEOUT_MS, kittySequenceTimeout)
  /\ Becomes(windowsPasteTimeoutCallback(Cur))
  /\ last' = Step("windowsPasteTimeout", NoKey, <<>>)
  /\ UNCHANGED <<Settings, Elsewhere, received, nInputs, torn>>

Next ==
  \/ Keypress
  \/ KittyTimeoutFires
  \/ BackslashTimeoutFires
  \/ DragTimerFires
  \/ Teardown

Spec == Init /\ [][Next]_vars

NextRaw ==
  \/ RawData
  \/ KittyTimeoutFires
  \/ BackslashTimeoutFires
  \/ DragTimerFires
  \/ WindowsPasteTimerFires
  \/ Teardown

SpecRaw == InitRaw /\ [][NextRaw]_vars

\* ------------------------------------------------- the classifier alone
\* Longest buffer handed to parseKittyPrefix on its own.
MaxParseLen == 7

\* The characters such a buffer is grown by after ESC [.
ParseChars == {"1", "3", "5", ";", "A", "Z", "u", "~", ESC}

\* What a step that applies parseKittyPrefix leaves alone: the provider.
ProviderVars ==
  <<kittyProtocolEnabled, config, isWindows, usePassthrough, isPaste, pasteBuffer,
    kittySequenceBuffer, kittySequenceTimeout, backslashTimeout, backslashTimers,
    waitingForEnterAfterBackslash, isDragging, dragBuffer, draggingTimer, draggingKey,
    partialDataBuffer, windowsPasteBuffer, windowsPasteTimer, windowsPasteActive,
    emitted, overflowEvents, emittedSrc, kittySrc, pasteSrc, dragSrc, partialSrc,
    windowsSrc, backslashSrc, received, nInputs, torn, last, subscribers, delivered,
    reaction, debugKeystrokeLogging, debugMode, pasteDebugStream, debugLog>>

\* parseKittyPrefix is handed the CSI introducer.
InitParse ==
  /\ kittyProtocolEnabled = TRUE
  /\ isWindows = FALSE
  /\ usePassthrough = FALSE
  /\ Constructed
  /\ config = FALSE
  /\ DebugOff
  /\ QuietHandlers
  /\ ExporterIdle
  /\ FileIdle
  /\ LoopIdle
  /\ parseInput = <<ESC, "[">>
  /\ parseResult = parseKittyPrefix(<<ESC, "[">>)

\* The buffer grows by one character and parseKittyPrefix is applied to it,
\* as the loop does with the accumulated kittySequenceBuffer (line 729).
ParseLonger ==
  /\ Len(parseInput) < MaxParseLen
  /\ \E c \in ParseChars :
       /\ parseInput' = Append(parseInput, c)
       /\ parseResult' = parseKittyPrefix(Append(parseInput, c))
  /\ UNCHANGED <<ProviderVars, ExporterVars, FileVars, LoopVars>>

\* Largest modifier bitfield-plus-base a terminal is taken to send.
MaxMods == 16

\* The <mods> values: without and with the event-type offset added.
ModsValues ==
  (0..MaxMods) \cup
    (KITTY_MODIFIER_EVENT_TYPES_OFFSET..(KITTY_MODIFIER_EVENT_TYPES_OFFSET + MaxMods))

DigitChars == <<"0", "1", "2", "3", "4", "5", "6", "7", "8", "9">>

\* The decimal digits a terminal writes for a parameter n >= 0.
RECURSIVE ToDigits(_)
ToDigits(n) ==
  IF n < 10 THEN <<DigitChars[n + 1]>>
  ELSE Append(ToDigits(n \div 10), DigitChars[(n % 10) + 1])

\* The final characters of the parameterized functional form (line 343).
FunctionalLetters == {"A", "B", "C", "D", "H", "F", "P", "Q", "R", "S"}

\* ESC [ 1 ; <mods> <letter>
ModifiedSeq(mods, letter) == <<ESC, "[", "1", ";">> \o ToDigits(mods) \o <<letter>>

\* In place of the bare CSI introducer parseKittyPrefix is handed a
\* parameterized functional sequence.
ParseModified ==
  /\ parseInput = <<ESC, "[">>
  /\ \E mods \in ModsValues, letter \in FunctionalLetters :
       /\ parseInput' = ModifiedSeq(mods, letter)
       /\ parseResult' = parseKittyPrefix(ModifiedSeq(mods, letter))
  /\ UNCHANGED <<ProviderVars, ExporterVars, FileVars, LoopVars>>

\* The <code> values: the tilde codes and one past them, the codes of
\* kittyKeyCodeToName, first and last lowercase letter, and codes that name
\* nothing.
CodeValues ==
  (1..7) \cup {KITTY_KEYCODE_TAB, KITTY_KEYCODE_ENTER, CHAR_CODE_ESC, 65, 97, 122,
               KITTY_KEYCODE_BACKSPACE, 200, KITTY_KEYCODE_NUMPAD_ENTER}

\* The optional (; <mods>): absent, or one of none, shift, alt, ctrl and
\* ctrl with the event-type offset.
ModsOptions == {<<>>, <<1>>, <<2>>, <<3>>, <<5>>, <<133>>}

\* ESC [ <code> (; <mods>)? <terminator>
CodedSeq(code, mods, terminator) ==
  <<ESC, "[">> \o ToDigits(code)
    \o (IF mods = <<>> THEN <<>> ELSE <<";">> \o ToDigits(mods[1])) \o <<terminator>>

\* In place of the bare CSI introducer parseKittyPrefix is handed a CSI-u or
\* tilde-coded sequence.
ParseCoded ==
  /\ parseInput = <<ESC, "[">>
  /\ \E code \in CodeValues, mods \in ModsOptions, terminator \in {"u", "~"} :
       /\ parseInput' = CodedSeq(code, mods, terminator)
       /\ parseResult' = parseKittyPrefix(CodedSeq(code, mods, terminator))
  /\ UNCHANGED <<ProviderVars, ExporterVars, FileVars, LoopVars>>

NextParse ==
  \/ ParseLonger
  \/ ParseModified
  \/ ParseCoded

SpecParse == InitParse /\ [][NextParse]_vars

\* ------------------------------------------------ subscribe and broadcast
\* Most events broadcast to the handlers.
MaxBroadcasts == 3

\* The provider with handlers that may call subscribe and unsubscribe while
\* they run.
InitPubSub ==
  /\ kittyProtocolEnabled = TRUE
  /\ isWindows = FALSE
  /\ usePassthrough = FALSE
  /\ Constructed
  /\ config = FALSE
  /\ DebugOff
  /\ reaction \in [Handlers -> Reactions]
  /\ ExporterIdle
  /\ FileIdle
  /\ LoopIdle
  /\ ParseIdle

\* subscribe(handler), called by the owner of a handler.
Subscribe ==
  /\ \E handler \in Handlers :
       /\ Becomes(subscribe(Cur, handler))
       /\ last' = Step("subscribe", NoKey, <<handler>>)
  /\ UNCHANGED <<Settings, Elsewhere, received, nInputs, torn>>

\* unsubscribe(handler), called by the owner of a handler.
Unsubscribe ==
  /\ \E handler \in Handlers :
       /\ Becomes(unsubscribe(Cur, handler))
       /\ last' = Step("unsubscribe", NoKey, <<handler>>)
  /\ UNCHANGED <<Settings, Elsewhere, received, nInputs, torn>>

\* broadcast(key), as handleKeypress and the timer callbacks call it.
Broadcast ==
  /\ Len(emitted) < MaxBroadcasts
  /\ \E key \in {Note("a", <<"a">>), PasteEvent(<<"h", "i">>)} :
       /\ Becomes(broadcast(Cur, key, NoSrc))
       /\ last' = Step("broadcast", key, <<>>)
  /\ UNCHANGED <<Settings, Elsewhere, received, nInputs, torn>>

NextPubSub ==
  \/ Subscribe
  \/ Unsubscribe
  \/ Broadcast

SpecPubSub == InitPubSub /\ [][NextPubSub]_vars

\* ------------------------------------------------ the provider with its logs
\* Input units of a run with its logs.
MaxLoggedInputs == 2

\* The provider mounted with every combination of the debug settings, in
\* either input mode. The debug log starts with what the effect writes while
\* it wires the input (lines 210, 1170 and 1181).
InitDebug ==
  /\ kittyProtocolEnabled = TRUE
  /\ isWindows \in BOOLEAN
  /\ usePassthrough \in BOOLEAN
  /\ Constructed
  /\ debugKeystrokeLogging \in BOOLEAN
  /\ debugMode \in BOOLEAN
  /\ debugMode => config
  /\ pasteDebugStream \in BOOLEAN
  /\ debugLog = IF pasteDebugStream
                  THEN (IF isWindows THEN <<210>> ELSE <<>>)
                         \o <<IF usePassthrough THEN 1170 ELSE 1181>>
                  ELSE <<>>
  /\ QuietHandlers
  /\ ExporterIdle
  /\ FileIdle
  /\ LoopIdle
  /\ ParseIdle

LoggedKeypress == KeypressWithin(MaxLoggedInputs)

LoggedRawData == RawDataWithin(MaxLoggedInputs)

NextDebug ==
  \/ LoggedKeypress
  \/ LoggedRawData
  \/ KittyTimeoutFires
  \/ BackslashTimeoutFires
  \/ DragTimerFires
  \/ WindowsPasteTimerFires
  \/ Teardown

SpecDebug == InitDebug /\ [][NextDebug]_vars

\* ----------------------------------------------------------- GcpLogExporter
\* Calls of export in a run.
MaxExports == 3

\* Calls of forceFlush and shutdown in a run.
MaxFlushes == 2

\* ExportResultCode
SUCCESS == "SUCCESS"
FAILED == "FAILED"

\* { code, error }, what resultCallback is called with; error names what
\* threw: the building of the entries, the write, or resultCallback itself.
ExportResult(code, error) == [code |-> code, error |-> error]

\* The exporter's state as one value.
Exporter == [exports |-> exports, pendingWrites |-> pendingWrites, flushes |-> flushes]

ExporterBecomes(x) ==
  /\ exports' = x.exports
  /\ pendingWrites' = x.pendingWrites
  /\ flushes' = x.flushes

\* resultCallback(result) of the id-th call of export.
resultCallback(x, id, result) == [x EXCEPT !.exports[id].calls = Append(@, result)]

\* What a call of resultCallback ends with.
Thrown(x, id) == IF x.exports[id].callback = "throws" THEN "callback" ELSE "none"

\* A call of export as it starts: nothing written, nothing reported.
ExportCall(entries, callback) ==
  [entries |-> entries, callback |-> callback, write |-> "none", writePromise |-> "none",
   calls |-> <<>>, threw |-> FALSE]

\* export(logs, resultCallback), lines 194-268. entries: whether building the
\* entries and starting the write went through ("built") or threw ("throws").
export(x, entries, callback) ==
  IF entries = "throws"
  THEN resultCallback(
         [x EXCEPT !.exports = Append(@, [ExportCall(entries, callback)
                                            EXCEPT !.threw = callback = "throws"])],
         Len(x.exports) + 1, ExportResult(FAILED, "entries"))
  ELSE [x EXCEPT !.exports = Append(@, [ExportCall(entries, callback)
                                          EXCEPT !.write = "pending",
                                                 !.writePromise = "pending"]),
                 !.pendingWrites = Append(@, Len(x.exports) + 1)]

\* Lines 246-249: .then(() => resultCallback({ code: SUCCESS })); answers the
\* state and the error the resulting promise is rejected with ("none": it is
\* fulfilled).
afterThen(x, id, outcome) ==
  IF outcome = "resolved"
  THEN [x |-> resultCallback(x, id, ExportResult(SUCCESS, "none")), error |-> Thrown(x, id)]
  ELSE [x |-> x, error |-> "write"]

\* Lines 249-254: .catch((error) => resultCallback({ code: FAILED, error }))
afterCatch(r, id) ==
  IF r.error # "none"
  THEN [x |-> resultCallback(r.x, id, ExportResult(FAILED, r.error)), error |-> Thrown(r.x, id)]
  ELSE r

\* Lines 255-260: .finally(() => splice the promise out of pendingWrites); the
\* promise it returns, writePromise, settles as the one before it did.
afterFinally(r, id) ==
  [r.x EXCEPT !.pendingWrites = SelectSeq(@, LAMBDA w : w # id),
              !.exports[id].writePromise = IF r.error = "none" THEN "resolved" ELSE "rejected"]

\* The continuations of await Promise.all(this.pendingWrites), lines 272 and
\* 277-278, from the j-th pending call on: Promise.all is rejected with the
\* first rejection and fulfilled when every promise is; shutdown then empties
\* pendingWrites.
RECURSIVE resumeFlushes(_, _)
resumeFlushes(x, j) ==
  IF j > Len(x.flushes) THEN x
  ELSE IF x.flushes[j].state = "pending"
            /\ \E id \in x.flushes[j].awaited : x.exports[id].writePromise = "rejected"
  THEN resumeFlushes([x EXCEPT !.flushes[j].state = "rejected"], j + 1)
  ELSE IF x.flushes[j].state = "pending"
            /\ \A id \in x.flushes[j].awaited : x.exports[id].writePromise = "resolved"
  THEN resumeFlushes(
         [x EXCEPT !.flushes[j].state = "resolved",
                   !.pendingWrites = IF x.flushes[j].op = "shutdown" THEN <<>> ELSE @],
         j + 1)
  ELSE resumeFlushes(x, j + 1)

\* The promise of this.log.write(entries) of the id-th call settles, and the
\* chain of lines 244-260 and the waiting flushes run.
settle(x, id, outcome) ==
  resumeFlushes(
    afterFinally(afterCatch(afterThen([x EXCEPT !.exports[id].write = outcome], id, outcome),
                            id),
                 id),
    1)

\* forceFlush() (lines 270-274) and shutdown() (276-279) as they are called:
\* awaited is what Promise.all is handed, inFlight the calls of export whose
\* write had not settled.
forceFlush(x, op) ==
  [x EXCEPT !.flushes =
     Append(@, [op |-> op,
                awaited |-> {x.pendingWrites[i] : i \in 1..Len(x.pendingWrites)},
                inFlight |-> {id \in 1..Len(x.exports) : x.exports[id].write = "pending"},
                state |-> IF x.pendingWrites = <<>> THEN "resolved" ELSE "pending"])]

\* new GcpLogExporter(projectId), with the provider left as constructed.
InitExporter ==
  /\ kittyProtocolEnabled = TRUE
  /\ isWindows = FALSE
  /\ usePassthrough = FALSE
  /\ Constructed
  /\ config = FALSE
  /\ DebugOff
  /\ QuietHandlers
  /\ ParseIdle
  /\ ExporterIdle
  /\ FileIdle
  /\ LoopIdle

Export ==
  /\ Len(exports) < MaxExports
  /\ \E entries \in {"built", "throws"}, callback \in {"returns", "throws"} :
       ExporterBecomes(export(Exporter, entries, callback))
  /\ UNCHANGED <<ProviderVars, parseInput, parseResult, FileVars, LoopVars>>

\* The write of one call of export resolves or rejects.
WriteSettles ==
  /\ \E id \in 1..Len(exports), outcome \in {"resolved", "rejected"} :
       /\ exports[id].write = "pending"
       /\ ExporterBecomes(settle(Exporter, id, outcome))
  /\ UNCHANGED <<ProviderVars, parseInput, parseResult, FileVars, LoopVars>>

ForceFlush ==
  /\ Len(flushes) < MaxFlushes
  /\ ExporterBecomes(forceFlush(Exporter, "forceFlush"))
  /\ UNCHANGED <<ProviderVars, parseInput, parseResult, FileVars, LoopVars>>

Shutdown ==
  /\ Len(flushes) < MaxFlushes
  /\ ExporterBecomes(forceFlush(Exporter, "shutdown"))
  /\ UNCHANGED <<ProviderVars, parseInput, parseResult, FileVars, LoopVars>>

NextExporter ==
  \/ Export
  \/ WriteSettles
  \/ ForceFlush
  \/ Shutdown

SpecExporter == InitExporter /\ [][NextExporter]_vars

\* ------------------------------------------------------------ settings file
\* JSON values: a string, or an object with its members in insertion order.
Str(s) == [isObject |-> FALSE, str |-> s, members |-> <<>>]

Obj(members) == [isObject |-> TRUE, str |-> "", members |-> members]

Member(key, value) == [key |-> key, value |-> value]

\* A file's text is a sequence of tokens: the punctuation of JSON, "_" for a
\* run of white space, and anything else for a string literal.
Punctuation == {"{", "}", ",", ":", "_"}

RECURSIVE SkipSpace(_)
SkipSpace(text) ==
  IF text # <<>> /\ Head(text) = "_" THEN SkipSpace(Tail(text)) ELSE text

\* Position of a key among the members of an object, 0 when it has none.
KeyIndex(members, key) ==
  IF \E i \in 1..Len(members) : members[i].key = key
  THEN CHOOSE i \in 1..Len(members) : members[i].key = key
  ELSE 0

\* result[key] = value: an own property keeps its place, a new one goes last.
setMember(members, key, value) ==
  IF KeyIndex(members, key) # 0
  THEN [members EXCEPT ![KeyIndex(members, key)] = Member(key, value)]
  ELSE Append(members, Member(key, value))

SyntaxError == [ok |-> FALSE, value |-> Str(""), rest |-> <<>>]

Parsed(value, rest) == [ok |-> TRUE, value |-> value, rest |-> rest]

\* The recursive descent of parse: a value at the head of the text, and the
\* members of an object after its opening brace.
RECURSIVE parseValue(_)
RECURSIVE parseMembers(_, _)

\* After a member's value: a comma and the next member, or the closing brace.
afterMember(r, members, key) ==
  IF ~r.ok \/ SkipSpace(r.rest) = <<>> THEN SyntaxError
  ELSE IF Head(SkipSpace(r.rest)) = ","
  THEN parseMembers(SkipSpace(Tail(SkipSpace(r.rest))), setMember(members, key, r.value))
  ELSE IF Head(SkipSpace(r.rest)) = "}"
  THEN Parsed(Obj(setMember(members, key, r.value)), Tail(SkipSpace(r.rest)))
  ELSE SyntaxError

\* key : value, text starting at the key.
parseMembers(text, members) ==
  IF text = <<>> \/ Head(text) \in Punctuation THEN SyntaxError
  ELSE IF SkipSpace(Tail(text)) = <<>> \/ Head(SkipSpace(Tail(text))) # ":" THEN SyntaxError
  ELSE afterMember(parseValue(Tail(SkipSpace(Tail(text)))), members, Head(text))

parseValue(text) ==
  IF SkipSpace(text) = <<>> THEN SyntaxError
  ELSE IF Head(SkipSpace(text)) = "{"
  THEN IF SkipSpace(Tail(SkipSpace(text))) # <<>> /\ Head(SkipSpace(Tail(SkipSpace(text)))) = "}"
       THEN Parsed(Obj(<<>>), Tail(SkipSpace(Tail(SkipSpace(text)))))
       ELSE parseMembers(SkipSpace(Tail(SkipSpace(text))), <<>>)
  ELSE IF Head(SkipSpace(text)) \in Punctuation THEN SyntaxError
  ELSE Parsed(Str(Head(SkipSpace(text))), Tail(SkipSpace(text)))

\* parse(originalContent) of comment-json: the value, or a SyntaxError thrown
\* (ok = FALSE) when the text is not one JSON value.
parse(text) ==
  IF parseValue(text).ok /\ SkipSpace(parseValue(text).rest) = <<>>
  THEN parseValue(text)
  ELSE SyntaxError

\* stringify(value, null, 2): one member per line.
RECURSIVE stringify(_)
RECURSIVE stringifyMembers(_)
stringifyMembers(members) ==
  <<Head(members).key, ":">> \o stringify(Head(members).value)
    \o (IF Len(members) = 1 THEN <<>> ELSE <<",", "_">> \o stringifyMembers(Tail(members)))

stringify(value) ==
  IF ~value.isObject THEN <<value.str>>
  ELSE IF value.members = <<>> THEN <<"{", "}">>
  ELSE <<"{", "_">> \o stringifyMembers(value.members) \o <<"_", "}">>

RECURSIVE applyUpdates(_, _)
\* applyUpdates(current, updates), lines 52-78: for each own property of
\* updates, objects on both sides are merged, anything else is assigned.
applyUpdates(current, updates) ==
  IF updates.members = <<>> THEN current
  ELSE applyUpdates(
         Obj(setMember(
               current.members, Head(updates.members).key,
               IF /\ Head(updates.members).value.isObject
                  /\ KeyIndex(current.members, Head(updates.members).key) # 0
                  /\ current.members[KeyIndex(current.members,
                                              Head(updates.members).key)].value.isObject
               THEN applyUpdates(
                      current.members[KeyIndex(current.members,
                                               Head(updates.members).key)].value,
                      Head(updates.members).value)
               ELSE Head(updates.members).value)),
         Obj(Tail(updates.members)))

\* What a call of updateSettingsFilePreservingFormat left behind.
Call(file, updates, threw, errors) ==
  [op |-> "update", updates |-> updates, existed |-> file.exists, before |-> file.content,
   threw |-> threw, errors |-> errors]

NoCall == [op |-> "none", updates |-> Obj(<<>>), existed |-> FALSE, before |-> <<>>,
           threw |-> FALSE, errors |-> 0]

File(content) == [exists |-> TRUE, content |-> content]

NoFile == [exists |-> FALSE, content |-> <<>>]

\* A variant of updateSettingsFilePreservingFormat that treats a file it
\* cannot parse like a missing one and writes the updates over it; C28 tells
\* the two apart.
updateSettingsFileOverwriting(file, updates) ==
  IF ~file.exists \/ ~parse(file.content).ok
  THEN [file |-> File(stringify(updates)), call |-> Call(file, updates, FALSE, 0)]
  ELSE [file |-> File(stringify(applyUpdates(parse(file.content).value, updates))),
        call |-> Call(file, updates, FALSE, 0)]

\* updateSettingsFilePreservingFormat(filePath, updates), lines 19-50, with
\* no environment variable mappings; answers the file and what the call did
\* (whether it threw, how many lines it wrote to console.error).
updateSettingsFilePreservingFormat(file, updates) ==
  IF ~file.exists
  THEN [file |-> File(stringify(updates)), call |-> Call(file, updates, FALSE, 0)]
  ELSE IF ~parse(file.content).ok
  THEN [file |-> file, call |-> Call(file, updates, FALSE, 2)]
  ELSE [file |-> File(stringify(applyUpdates(parse(file.content).value, updates))),
        call |-> Call(file, updates, FALSE, 0)]

\* The servers of the settings handled here.
Server(command) == Obj(<<Member("command", Str(command))>>)

\* The settings the files are written from.
FileSettings ==
  { Obj(<<>>),
    Obj(<<Member("model", Str("pro"))>>),
    Obj(<<Member("model", Str("pro")),
          Member("mcpServers", Obj(<<Member("context7", Server("node")),
                                     Member("oldServer", Server("old"))>>))>>),
    Obj(<<Member("mcpServers", Obj(<<Member("context7", Server("node"))>>))>>),
    Obj(<<Member("mcpServers", Str("off"))>>) }

\* The text without its white space.
Compact(text) == SelectSeq(text, LAMBDA t : t # "_")

\* Texts that are not one JSON value: the closing brace is missing, the file
\* is empty, a colon is missing, text follows the value.
Corrupted ==
  {SubSeq(stringify(v), 1, Len(stringify(v)) - 1) : v \in FileSettings}
    \cup { <<>>, <<"{", "model", "pro", "}">>, <<"{", "}", "}">> }

\* What the settings file may hold when a call finds it.
Contents ==
  {stringify(v) : v \in FileSettings} \cup {Compact(stringify(v)) : v \in FileSettings}
    \cup Corrupted

\* The updates the callers pass.
Updates ==
  { Obj(<<>>),
    Obj(<<Member("model", Str("flash"))>>),
    Obj(<<Member("model", Str("pro")),
          Member("mcpServers", Obj(<<Member("context7", Server("node"))>>))>>),
    Obj(<<Member("mcpServers", Obj(<<>>))>>),
    Obj(<<Member("mcpServers", Obj(<<Member("context7", Server("node")),
                                     Member("newServer", Server("new"))>>))>>),
    Obj(<<Member("mcpServers", Obj(<<Member("oldServer", Server("old"))>>))>>) }

\* No settings file, and no call made, with everything else left as constructed.
InitFile ==
  /\ kittyProtocolEnabled = TRUE
  /\ isWindows = FALSE
  /\ usePassthrough = FALSE
  /\ Constructed
  /\ config = FALSE
  /\ DebugOff
  /\ QuietHandlers
  /\ ParseIdle
  /\ ExporterIdle
  /\ settingsFile \in {NoFile} \cup {File(content) : content \in Contents}
  /\ settingsCall = NoCall
  /\ LoopIdle

\* A call of updateSettingsFilePreservingFormat.
UpdateSettings ==
  /\ \E updates \in Updates :
       /\ settingsFile' = updateSettingsFilePreservingFormat(settingsFile, updates).file
       /\ settingsCall' = updateSettingsFilePreservingFormat(settingsFile, updates).call
  /\ UNCHANGED <<ProviderVars, parseInput, parseResult, ExporterVars, LoopVars>>

\* The user edits the file by hand.
EditFile ==
  /\ \E content \in Contents : settingsFile' = File(content)
  /\ settingsCall' = [NoCall EXCEPT !.op = "edit"]
  /\ UNCHANGED <<ProviderVars, parseInput, parseResult, ExporterVars, LoopVars>>

\* The file is removed.
RemoveFile ==
  /\ settingsFile.exists
  /\ settingsFile' = NoFile
  /\ settingsCall' = [NoCall EXCEPT !.op = "remove"]
  /\ UNCHANGED <<ProviderVars, parseInput, parseResult, ExporterVars, LoopVars>>

NextFile ==
  \/ UpdateSettings
  \/ EditFile
  \/ RemoveFile

SpecFile == InitFile /\ [][NextFile]_vars

\* ------------------------------------------- the classification loop alone
\* The longest buffer the loop is started on.
MaxLoopLen == 4

\* The characters of those buffers.
LoopChars == {ESC, "[", "1", ";", "A", "x"}

\* A variant of the iteration that looks for the next ESC from position 0,
\* where the buffer's own leading ESC is found; C35 tells the two apart.
kittyLoopIterationFromStart(buffer) ==
  IF parseKittyPrefix(buffer).matched
  THEN [remainingBuffer |-> Slice(buffer, parseKittyPrefix(buffer).length + 1), break |-> FALSE]
  ELSE IF IndexOf(buffer, <<ESC>>, 1) # 0
  THEN [remainingBuffer |-> Slice(buffer, IndexOf(buffer, <<ESC>>, 1)), break |-> FALSE]
  ELSE IF ~couldBeKittySequence(buffer) \/ Len(buffer) > MAX_KITTY_SEQUENCE_LENGTH
  THEN [remainingBuffer |-> <<>>, break |-> FALSE]
  ELSE [remainingBuffer |-> buffer, break |-> TRUE]

\* One iteration of while (remainingBuffer), lines 728-840: what it leaves in
\* remainingBuffer, and whether it left the loop through break.
kittyLoopIteration(buffer) ==
  IF parseKittyPrefix(buffer).matched
  THEN [remainingBuffer |-> Slice(buffer, parseKittyPrefix(buffer).length + 1), break |-> FALSE]
  ELSE IF IndexOf(buffer, <<ESC>>, 2) # 0
  THEN [remainingBuffer |-> Slice(buffer, IndexOf(buffer, <<ESC>>, 2)), break |-> FALSE]
  ELSE IF ~couldBeKittySequence(buffer) \/ Len(buffer) > MAX_KITTY_SEQUENCE_LENGTH
  THEN [remainingBuffer |-> <<>>, break |-> FALSE]
  ELSE [remainingBuffer |-> buffer, break |-> TRUE]

\* The loop is entered with a non-empty buffer, everything else as constructed.
InitLoop ==
  /\ kittyProtocolEnabled = TRUE
  /\ isWindows = FALSE
  /\ usePassthrough = FALSE
  /\ Constructed
  /\ config = FALSE
  /\ DebugOff
  /\ QuietHandlers
  /\ ParseIdle
  /\ ExporterIdle
  /\ FileIdle
  /\ loopBuffer \in UNION {[1..k -> LoopChars] : k \in 1..MaxLoopLen}
  /\ loopExit = "running"
  /\ iterations = 0

\* The loop condition holds and the body runs once.
Iterate ==
  /\ loopExit = "running"
  /\ loopBuffer' = kittyLoopIteration(loopBuffer).remainingBuffer
  /\ loopExit' = IF kittyLoopIteration(loopBuffer).break THEN "break"
                 ELSE IF kittyLoopIteration(loopBuffer).remainingBuffer = <<>> THEN "empty"
                 ELSE "running"
  /\ iterations' = iterations + 1
  /\ UNCHANGED <<ProviderVars, parseInput, parseResult, ExporterVars, FileVars>>

NextLoop == Iterate

\* The body runs as long as the loop condition holds.
SpecLoop == InitLoop /\ [][NextLoop]_vars /\ WF_vars(Iterate)

\* ------------------------------------------------------------ properties
\* The sequence fields of a list of events, concatenated in order.
RECURSIVE TextOf(_)
TextOf(events) ==
  IF events = <<>> THEN <<>> ELSE Head(events).sequence \o TextOf(Tail(events))

\* The events broadcast by the step under consideration.
NewEvents == SubSeq(emitted', Len(emitted) + 1, Len(emitted'))

Framing == {PASTE_MODE_PREFIX, PASTE_MODE_SUFFIX, FOCUS_IN, FOCUS_OUT}

\* s without the framing sequences (paste markers; focus reports, which the
\* decoder consumes as framing too, are left out as well).
RECURSIVE StripFraming(_)
StripFraming(s) ==
  IF s = <<>> THEN <<>>
  ELSE IF \E m \in Framing : StartsWith(s, m)
  THEN StripFraming(Slice(s, 1 + Len(CHOOSE m \in Framing : StartsWith(s, m))))
  ELSE <<Head(s)>> \o StripFraming(Tail(s))

IsCtrlC(key) == (key.ctrl /\ key.name = "c") \/ key.sequence = <<ESC>> \o KITTY_CTRL_C

\* C1 (Completeness): once teardown has run, the sequence fields of all
\* broadcast events, concatenated in emission order, equal the concatenated
\* input with the framing markers removed.
C1_Completeness == torn => TextOf(emitted) = StripFraming(received)

\* C2 (Interrupt priority): when a Ctrl+C notification reaches the Ctrl+C
\* branch of handleKeypress while the escape-sequence buffer is non-empty, a
\* raw event carrying the buffer verbatim is broadcast before the Ctrl+C
\* event, and afterwards the buffer is empty and its timeout cancelled.
C2_InterruptPriority ==
  [][(/\ last'.op = "keypress" /\ nInputs' = nInputs + 1
      /\ IsCtrlC(last'.key)
      /\ ~isPaste /\ ~isDragging
      /\ kittySequenceBuffer # <<>>)
     => (/\ \E i, j \in 1..Len(NewEvents) :
              /\ i < j
              /\ NewEvents[i] = RawEvent(kittySequenceBuffer)
              /\ NewEvents[j].name = "c" /\ NewEvents[j].ctrl
         /\ kittySequenceBuffer' = <<>>
         /\ kittySequenceTimeout' = 0)]_vars

\* C3 (Emission order): no event is broadcast before an event that carries
\* input of an earlier notification: along the broadcast events that carry
\* input, the oldest input unit an event carries is never older than the
\* newest input unit carried by an event broadcast before it.
C3_EmissionOrder ==
  \A p, q \in 1..Len(emittedSrc) :
    (p < q /\ emittedSrc[p] # NoSrc /\ emittedSrc[q] # NoSrc)
      => emittedSrc[q][1] >= emittedSrc[p][2]

\* A step that delivers one key notification to handleKeypress.
KeypressStep == last'.op = "keypress" /\ nInputs' = nInputs + 1

\* A step that runs the effect cleanup.
TeardownStep == ~torn /\ torn' /\ last'.op = "teardown"

\* <<e>> when the condition holds, nothing otherwise.
If(cond, e) == IF cond THEN <<e>> ELSE <<>>

Pending == <<ESC, "[", "1", ";", "5">>

\* C4 (Bounded latency): while the escape-sequence buffer holds input and no
\* further notification arrives, its timeout stays scheduled and nothing is
\* broadcast for the buffer until the timeout fires; the step on which it
\* fires broadcasts exactly one raw event carrying the buffer verbatim and
\* leaves the buffer empty and the timeout unscheduled.
C4_BoundedLatency ==
  [][(kittySequenceBuffer # <<>> /\ ~torn)
     => /\ kittySequenceTimeout # 0
        /\ (nInputs' = nInputs /\ ~TeardownStep)
             => IF last'.op = "kittyTimeout"
                THEN /\ NewEvents = <<RawEvent(kittySequenceBuffer)>>
                     /\ kittySequenceBuffer' = <<>>
                     /\ kittySequenceTimeout' = 0
                ELSE /\ kittySequenceBuffer' = kittySequenceBuffer
                     /\ kittySequenceTimeout' = kittySequenceTimeout
                     /\ \A i \in 1..Len(NewEvents) :
                          NewEvents[i].sequence # kittySequenceBuffer]_vars

\* The timeout has just fired on a held ESC[1;5 and broadcast it verbatim.
C4_Witness ==
  /\ last.op = "kittyTimeout"
  /\ Len(emitted) = last.before + 1
  /\ emitted[Len(emitted)] = RawEvent(Pending)
  /\ kittySequenceBuffer = <<>>
  /\ kittySequenceTimeout = 0

\* The characters a fragment is extended by, and the extensions tried.
ExtChars == {"1", "5", ";", "u", "~", "A", "Z", "P"}
Extensions == UNION {[1..k -> ExtChars] : k \in 0..MaxExt}

\* No extension of the fragment (the fragment itself included) starts with a
\* form parseKittyPrefix recognizes.
DeadEnd(fragment) ==
  \A ext \in Extensions : ~parseKittyPrefix(fragment \o ext).matched

\* C5 (Zero added latency): with protocol parsing enabled, a notification
\* whose sequence starts with ESC and is a dead end for parseKittyPrefix,
\* reaching the escape accumulation with an empty buffer, has its raw event
\* broadcast within the same call and leaves no timeout scheduled.
C5_ZeroLatency ==
  [][(/\ KeypressStep
      /\ kittyProtocolEnabled
      /\ ~isPaste /\ ~isDragging /\ ~waitingForEnterAfterBackslash
      /\ kittySequenceBuffer = <<>>
      /\ StartsWith(last'.key.sequence, <<ESC>>)
      /\ last'.key.sequence \notin Framing
      /\ DeadEnd(last'.key.sequence))
     => (/\ \E i \in 1..Len(NewEvents) : NewEvents[i].sequence = last'.key.sequence
         /\ kittySequenceTimeout' = 0)]_vars

\* C6 (Teardown flushes the escape, paste and drag buffers): the cleanup
\* broadcasts exactly a raw event for a non-empty escape-sequence buffer,
\* then a paste event for the paste payload when paste mode is active, then
\* a paste event for a non-empty drag buffer, and leaves the three buffers
\* empty.
C6_TeardownFlush ==
  [][TeardownStep
     => (/\ NewEvents =
              If(kittySequenceBuffer # <<>>, RawEvent(kittySequenceBuffer))
              \o If(isPaste, PasteEvent(pasteBuffer))
              \o If(dragBuffer # <<>>, PasteEvent(dragBuffer))
         /\ kittySequenceBuffer' = <<>>
         /\ pasteBuffer' = <<>>
         /\ dragBuffer' = <<>>)]_vars

\* The cleanup has just flushed a paste payload and then a drag buffer.
C6_Witness ==
  /\ torn /\ last.op = "teardown"
  /\ Len(emitted) = last.before + 2
  /\ emitted[last.before + 1] = PasteEvent(<<"a">>)
  /\ emitted[last.before + 2] = PasteEvent(SINGLE_QUOTE)

\* C7 (Teardown flushes the platform paste-heuristic buffer): when the
\* cleanup runs while windowsPasteBuffer is non-empty, the buffered text is
\* part of what the cleanup broadcasts.
C7_TeardownWindowsPaste ==
  [][(TeardownStep /\ windowsPasteBuffer # <<>>)
     => IndexOf(TextOf(NewEvents), windowsPasteBuffer, 1) # 0]_vars

\* C8 (Teardown flushes the cross-chunk buffer): when the cleanup runs while
\* partialDataBuffer holds a chunk tail, the held text is part of what the
\* cleanup broadcasts.
C8_TeardownPartialData ==
  [][(TeardownStep /\ partialDataBuffer # <<>>)
     => IndexOf(TextOf(NewEvents), partialDataBuffer, 1) # 0]_vars

\* C9 (Shutdown of timers): the cleanup leaves no timer scheduled, nothing is
\* broadcast once it has run, and a backslash still waiting for Return when
\* it runs is broadcast by it exactly once.
C9_TimerShutdown ==
  [][/\ TeardownStep
        => /\ kittySequenceTimeout' = 0 /\ draggingTimer' = 0
           /\ windowsPasteTimer' = 0 /\ backslashTimers' = <<>>
           /\ waitingForEnterAfterBackslash
                => Cardinality({i \in 1..Len(NewEvents) :
                                  NewEvents[i].sequence = <<"\\">>}) = 1
     /\ torn => emitted' = emitted]_vars

\* C10 (Focus interrupt): a focus-in or focus-out notification broadcasts the
\* pending escape-sequence buffer verbatim as one raw event and nothing else,
\* leaves the buffer empty and its timeout unscheduled, and leaves the paste,
\* drag and backslash state as they were.
C10_FocusInterrupt ==
  [][(KeypressStep /\ last'.key.sequence \in {FOCUS_IN, FOCUS_OUT})
     => (/\ NewEvents = If(kittySequenceBuffer # <<>>, RawEvent(kittySequenceBuffer))
         /\ kittySequenceBuffer' = <<>>
         /\ kittySequenceTimeout' = 0
         /\ UNCHANGED <<isPaste, pasteBuffer, isDragging, dragBuffer, draggingTimer,
                        draggingKey, waitingForEnterAfterBackslash,
                        backslashTimeout, backslashTimers>>)]_vars

\* A focus-in notification has just flushed a held ESC[1;5.
C10_Witness ==
  /\ last.op = "keypress" /\ last.key.sequence = FOCUS_IN
  /\ Len(emitted) = last.before + 1
  /\ emitted[Len(emitted)] = RawEvent(Pending)
  /\ kittySequenceBuffer = <<>>
  /\ kittySequenceTimeout = 0

\* A notification that handleKeypress consumes before the paste accumulation:
\* a focus report or a paste-start.
ConsumedInPaste(key) ==
  key.sequence \in {FOCUS_IN, FOCUS_OUT} \/ key.name = "paste-start"

\* What a notification other than paste-end does while paste mode is active,
\* `appended` telling whether its sequence joins the payload.
PasteHolds(appended) ==
  /\ NewEvents = <<>>
  /\ isPaste'
  /\ pasteBuffer' = IF appended THEN pasteBuffer \o last'.key.sequence ELSE pasteBuffer
  /\ kittySequenceBuffer' = kittySequenceBuffer

\* What paste-end does: one paste event carrying the payload, payload buffer
\* empty and paste mode off afterwards.
PasteEnds ==
  /\ NewEvents = <<[name |-> "", ctrl |-> FALSE, meta |-> FALSE, shift |-> FALSE,
                    paste |-> TRUE, sequence |-> pasteBuffer, kittyProtocol |-> FALSE]>>
  /\ pasteBuffer' = <<>>
  /\ ~isPaste'

\* C11 (Paste framing), as stated: while paste mode is active every
\* notification other than paste-end has its sequence appended to the payload
\* and broadcasts nothing; paste-end broadcasts the payload as one paste event.
C11_PasteFramingAsStated ==
  [][(KeypressStep /\ isPaste)
     => IF last'.key.name = "paste-end" THEN PasteEnds ELSE PasteHolds(TRUE)]_vars

\* C11 (Paste framing), amended: the payload is empty outside paste mode;
\* while paste mode is active a focus report or a further paste-start is
\* consumed without touching the payload, every other notification except
\* paste-end has its sequence appended to the payload, none of them
\* broadcasts anything or reaches the escape-sequence buffer; paste-end
\* broadcasts exactly one paste event (name '', paste=true) carrying the
\* payload and leaves the payload empty and paste mode off.
C11_PasteFraming ==
  [][/\ ~isPaste => pasteBuffer = <<>>
     /\ ~isPaste' => pasteBuffer' = <<>>
     /\ (KeypressStep /\ isPaste)
          => IF ConsumedInPaste(last'.key) THEN PasteHolds(FALSE)
             ELSE IF last'.key.name = "paste-end" THEN PasteEnds
             ELSE PasteHolds(TRUE)]_vars

\* A paste-end has just broadcast the payload "a" of a paste-start, a,
\* paste-end exchange.
C11_Witness ==
  /\ last.op = "keypress" /\ last.key.name = "paste-end"
  /\ received = PASTE_MODE_PREFIX \o <<"a">> \o PASTE_MODE_SUFFIX
  /\ emitted = <<PasteEvent(<<"a">>)>>
  /\ ~isPaste /\ pasteBuffer = <<>>

Hello == <<"h", "e", "l", "l", "o">>

MarkerChars == {PASTE_MODE_PREFIX[i] : i \in 1..Len(PASTE_MODE_PREFIX)}

\* C13 (Marker split across chunks): when the paste-start marker arrives
\* split over the two chunks ESC[20 and 0~hi (the payload "hi" following in
\* the second), no character of the marker appears in any broadcast event,
\* paste mode has started, and a following ESC[201~ chunk gives exactly one
\* paste event whose payload is "hi".
C13_SplitMarker ==
  /\ (nInputs = 2 /\ received = PASTE_MODE_PREFIX \o <<"h", "i">>)
       => /\ \A i \in 1..Len(emitted) : \A k \in 1..Len(emitted[i].sequence) :
               emitted[i].sequence[k] \notin MarkerChars
          /\ ~torn => isPaste
  /\ (nInputs = 3 /\ received = PASTE_MODE_PREFIX \o <<"h", "i">> \o PASTE_MODE_SUFFIX)
       => emitted = <<PasteEvent(<<"h", "i">>)>>

\* The window timer scheduled by the latest notification (a lone backslash)
\* has not fired yet.
BackslashWindowOpen ==
  \E i \in 1..Len(backslashTimers) : backslashTimers[i].id = nInputs

\* C14 (Backslash continuation): when a lone backslash is followed by a
\* notification named 'return' while the backslash's window timer has not
\* fired, exactly one event is broadcast for the pair (the Return key with
\* shift=true and sequence '\r') and the window timer is cancelled, so that
\* no separate backslash event follows.
C14_BackslashContinuation ==
  [][(KeypressStep /\ BackslashWindowOpen /\ last'.key.name = "return")
     => (/\ NewEvents = <<[last'.key EXCEPT !.shift = TRUE, !.sequence = <<"\r">>]>>
         /\ \A i \in 1..Len(backslashTimers') : backslashTimers'[i].id # nInputs
         /\ ~waitingForEnterAfterBackslash')]_vars

\* C15 (Backslash interrupted): while a lone backslash waits for Return, the
\* window timer firing broadcasts the backslash verbatim; a notification
\* other than Return that broadcasts anything has the verbatim backslash as
\* the first event of its step, ahead of its own events, and ends the wait.
C15_BackslashInterrupted ==
  [][waitingForEnterAfterBackslash
     => /\ (last'.op = "backslashTimeout" /\ backslashTimeout # 0
              /\ Head(backslashTimers).id = backslashTimeout)
             => NewEvents = <<RawEvent(<<"\\">>)>>
        /\ (KeypressStep /\ last'.key.name # "return" /\ NewEvents # <<>>)
             => /\ NewEvents[1] = RawEvent(<<"\\">>)
                /\ ~waitingForEnterAfterBackslash']_vars

\* The pieces of a fragment, cut in front of every ESC.
RECURSIVE SplitAtEsc(_, _)
SplitAtEsc(fragment, from) ==
  IF from > Len(fragment) THEN <<>>
  ELSE IF IndexOf(fragment, <<ESC>>, from + 1) = 0 THEN <<Slice(fragment, from)>>
  ELSE <<SubSeq(fragment, from, IndexOf(fragment, <<ESC>>, from + 1) - 1)>>
         \o SplitAtEsc(fragment, IndexOf(fragment, <<ESC>>, from + 1))

\* The piece is exactly one complete sequence parseKittyPrefix recognizes.
Complete(piece) ==
  parseKittyPrefix(piece).matched /\ parseKittyPrefix(piece).length = Len(piece)

\* The fragment is the concatenation of two or more complete sequences.
Batched(fragment) ==
  /\ StartsWith(fragment, <<ESC>>)
  /\ Len(SplitAtEsc(fragment, 1)) >= 2
  /\ \A i \in 1..Len(SplitAtEsc(fragment, 1)) : Complete(SplitAtEsc(fragment, 1)[i])

\* A notification that reaches the escape accumulation with an empty buffer.
ReachesEmptyBuffer ==
  /\ KeypressStep /\ kittyProtocolEnabled
  /\ ~isPaste /\ ~isDragging /\ ~waitingForEnterAfterBackslash
  /\ kittySequenceBuffer = <<>>
  /\ last'.key.name = "" /\ ~last'.key.ctrl
  /\ last'.key.sequence # <<ESC>> \o KITTY_CTRL_C

\* C16 (Batched parsing): a fragment that is the concatenation of n >= 2
\* complete recognized sequences, appended to an empty buffer, is broadcast
\* within the call as exactly n parsed events in input order, the i-th event
\* carrying exactly the i-th sequence, and leaves the buffer empty with no
\* timeout scheduled.
C16_BatchedParsing ==
  [][(ReachesEmptyBuffer /\ Batched(last'.key.sequence))
     => (/\ Len(NewEvents) = Len(SplitAtEsc(last'.key.sequence, 1))
         /\ \A i \in 1..Len(NewEvents) :
              /\ NewEvents[i].sequence = SplitAtEsc(last'.key.sequence, 1)[i]
              /\ NewEvents[i] = parseKittyPrefix(NewEvents[i].sequence).key
              /\ NewEvents[i].kittyProtocol
         /\ kittySequenceBuffer' = <<>>
         /\ kittySequenceTimeout' = 0)]_vars

\* The three sequences ESC[A, ESC[3~ and ESC[13u, delivered as one fragment,
\* have just been broadcast as up, delete and return.
C16_Witness ==
  /\ last.op = "keypress"
  /\ last.key.sequence = <<ESC, "[", "A", ESC, "[", "3", "~", ESC, "[", "1", "3", "u">>
  /\ Len(emitted) = last.before + 3
  /\ emitted[last.before + 1].name = "up"
  /\ emitted[last.before + 2].name = "delete"
  /\ emitted[last.before + 3].name = "return"
  /\ kittySequenceBuffer = <<>> /\ kittySequenceTimeout = 0

\* C17 (Classifier consumption): when parseKittyPrefix answers a match, the
\* length it answers lies within the buffer, the key's sequence is the
\* buffer's first `length` characters, those characters alone give the same
\* answer and no shorter prefix gives a match (they are exactly one complete
\* sequence), and the answer stays the same whatever character is appended.
C17_ClassifierConsumption ==
  [][/\ parseResult'.matched
          => /\ parseResult'.length \in 1..Len(parseInput')
             /\ parseResult'.key.sequence = SubSeq(parseInput', 1, parseResult'.length)
             /\ parseKittyPrefix(SubSeq(parseInput', 1, parseResult'.length)) = parseResult'
             /\ \A k \in 0..(parseResult'.length - 1) :
                  ~parseKittyPrefix(SubSeq(parseInput', 1, k)).matched
     /\ (parseResult.matched /\ StartsWith(parseInput', parseInput))
          => parseResult' = parseResult]_vars

\* ESC[1;5A followed by one more character still parses as ctrl+up of
\* length 6.
C17_Witness ==
  /\ Len(parseInput) = 7
  /\ SubSeq(parseInput, 1, 6) = <<ESC, "[", "1", ";", "5", "A">>
  /\ parseResult.matched /\ parseResult.length = 6
  /\ parseResult.key.name = "up" /\ parseResult.key.ctrl

\* C18 (Modifier decoding): for ESC[1;<mods><letter> with letter among
\* A B C D H F P Q R S parseKittyPrefix answers the names up down right left
\* home end f1 f2 f3 f4 respectively, with shift, meta and ctrl the bits 0, 1
\* and 2 of m - 1, m being <mods> less the event-type offset when <mods> is
\* at or above it; ESC[1;5A is up with ctrl alone; and <mods> with and
\* without the event-type offset decode to the same name and modifiers.
LetterName(letter) ==
  CASE letter = "A" -> "up" [] letter = "B" -> "down" [] letter = "C" -> "right"
    [] letter = "D" -> "left" [] letter = "H" -> "home" [] letter = "F" -> "end"
    [] letter = "P" -> "f1" [] letter = "Q" -> "f2" [] letter = "R" -> "f3"
    [] letter = "S" -> "f4"

BitOf(x, k) == (x \div (2 ^ k)) % 2 = 1

EventTypeFree(mods) ==
  IF mods >= KITTY_MODIFIER_EVENT_TYPES_OFFSET
    THEN mods - KITTY_MODIFIER_EVENT_TYPES_OFFSET ELSE mods

Decoded(result) ==
  <<result.matched, result.key.name, result.key.shift, result.key.meta, result.key.ctrl>>

C18_ModifierDecoding ==
  /\ \A mods \in ModsValues, letter \in FunctionalLetters :
       (parseInput[Len(parseInput)] = letter /\ parseInput = ModifiedSeq(mods, letter))
         => /\ Decoded(parseResult) =
                 <<TRUE, LetterName(letter), BitOf(EventTypeFree(mods) - 1, 0),
                   BitOf(EventTypeFree(mods) - 1, 1), BitOf(EventTypeFree(mods) - 1, 2)>>
            /\ Decoded(parseResult) =
                 Decoded(parseKittyPrefix(ModifiedSeq(
                   IF mods >= KITTY_MODIFIER_EVENT_TYPES_OFFSET
                     THEN mods - KITTY_MODIFIER_EVENT_TYPES_OFFSET
                     ELSE mods + KITTY_MODIFIER_EVENT_TYPES_OFFSET, letter)))
            /\ parseResult.length = Len(parseInput)
  /\ parseInput = <<ESC, "[", "1", ";", "5", "A">>
       => Decoded(parseResult) = <<TRUE, "up", FALSE, FALSE, TRUE>>

\* ESC[1;134Q, shift+ctrl with the event-type offset, was decoded as
\* shift+ctrl+f2.
C18_Witness ==
  /\ parseInput = <<ESC, "[", "1", ";", "1", "3", "4", "Q">>
  /\ Decoded(parseResult) = <<TRUE, "f2", TRUE, FALSE, TRUE>>

\* C19 (CSI-u / tilde grammar): for ESC[<code>(;<mods>)?<t>, with t = "~"
\* the codes 1..6 give home, insert, delete, end, pageup, pagedown and any
\* other code gives no match; with t = "u" a code of the escape / tab /
\* backspace / return table gives that name, a lowercase-letter code with
\* ctrl or alt gives the letter, and anything else gives no match.
TildeCodeName(code) ==
  CASE code = 1 -> "home" [] code = 2 -> "insert" [] code = 3 -> "delete"
    [] code = 4 -> "end" [] code = 5 -> "pageup" [] code = 6 -> "pagedown"

CodeTableName(code) ==
  CASE code = 27 -> "escape" [] code = 9 -> "tab" [] code = 127 -> "backspace"
    [] code = 13 -> "return" [] code = 57414 -> "return" [] OTHER -> ""

CtrlOrAlt(mods) ==
  /\ mods # <<>>
  /\ BitOf(EventTypeFree(mods[1]) - 1, 1) \/ BitOf(EventTypeFree(mods[1]) - 1, 2)

MatchedAs(result, name) == result.matched /\ result.key.name = name

C19_CsiTildeGrammar ==
  \A code \in CodeValues, mods \in ModsOptions, terminator \in {"u", "~"} :
    (parseInput[Len(parseInput)] = terminator /\ parseInput = CodedSeq(code, mods, terminator))
      => IF terminator = "~"
           THEN IF code \in 1..6 THEN MatchedAs(parseResult, TildeCodeName(code))
                ELSE ~parseResult.matched
         ELSE IF CodeTableName(code) # "" THEN MatchedAs(parseResult, CodeTableName(code))
         ELSE IF CtrlOrAlt(mods) /\ code \in 97..122
           THEN MatchedAs(parseResult, Letters[code - 96])
         ELSE ~parseResult.matched

\* A notification that reaches the escape accumulation and leaves there a
\* buffer of more than MAX_KITTY_SEQUENCE_LENGTH characters in which no
\* sequence is recognized and no further sequence starts.
Overflowing ==
  /\ KeypressStep /\ kittyProtocolEnabled
  /\ ~isPaste /\ ~isDragging /\ ~waitingForEnterAfterBackslash
  /\ last'.key.name \in {"", "a", "return"} /\ ~last'.key.ctrl
  /\ last'.key.sequence \notin
       Framing \cup {<<ESC>> \o KITTY_CTRL_C, <<"\\">>, SINGLE_QUOTE, DOUBLE_QUOTE, <<"U+00E5">>}
  /\ (kittySequenceBuffer # <<>> \/ StartsWith(last'.key.sequence, <<ESC>>))
  /\ Len(kittySequenceBuffer \o last'.key.sequence) > MAX_KITTY_SEQUENCE_LENGTH
  /\ ~parseKittyPrefix(kittySequenceBuffer \o last'.key.sequence).matched
  /\ IndexOf(kittySequenceBuffer \o last'.key.sequence, <<ESC>>, 2) = 0

\* What the claim says of such a step besides the notification.
OverflowFlushed ==
  /\ NewEvents = <<RawEvent(kittySequenceBuffer \o last'.key.sequence)>>
  /\ kittySequenceBuffer' = <<>> /\ kittySequenceTimeout' = 0
  /\ ~isPaste' /\ ~isDragging' /\ ~waitingForEnterAfterBackslash'

OverflowNotified ==
  overflowEvents' =
    Append(overflowEvents, <<Len(kittySequenceBuffer \o last'.key.sequence),
                             kittySequenceBuffer \o last'.key.sequence>>)

IsQuote(key) == key.sequence = SINGLE_QUOTE \/ key.sequence = DOUBLE_QUOTE

\* The notification joins the drag buffer and the drag timer is scheduled
\* anew, for this notification; nothing is broadcast.
DragExtends ==
  /\ isDragging'
  /\ dragBuffer' = dragBuffer \o last'.key.sequence
  /\ draggingTimer' = nInputs'
  /\ NewEvents = <<>>

\* The drag timer fires: one paste event with the whole drag buffer.
DragFlushes ==
  /\ Len(NewEvents) = 1
  /\ NewEvents[1].paste /\ NewEvents[1].name = ""
  /\ NewEvents[1].sequence = dragBuffer /\ dragBuffer # <<>>
  /\ ~isDragging' /\ dragBuffer' = <<>> /\ draggingTimer' = 0

\* C21 (Drag heuristic), as stated: outside paste mode a quote starts drag
\* accumulation; every following notification extends the drag buffer and
\* restarts the drag timer; the timer firing broadcasts exactly one event with
\* paste=true and name '' carrying the whole buffer and ends drag mode with
\* an empty buffer.
C21_DragHeuristicAsStated ==
  [][/\ (KeypressStep /\ ~isPaste /\ ~isDragging /\ IsQuote(last'.key))
          => (DragExtends /\ dragBuffer = <<>>)
     /\ (KeypressStep /\ isDragging) => DragExtends
     /\ last'.op = "dragTimeout" => DragFlushes]_vars

\* C21 (Drag heuristic), amended: the following notifications that extend the
\* drag buffer and restart the timer are those arriving outside paste mode
\* that are neither a focus report nor a paste marker; these others leave
\* the drag buffer and its timer as they were.
C21_DragHeuristic ==
  [][/\ (KeypressStep /\ ~isPaste /\ ~isDragging /\ IsQuote(last'.key))
          => (DragExtends /\ dragBuffer = <<>>)
     /\ (KeypressStep /\ isDragging)
          => IF ~isPaste /\ ~ConsumedInPaste(last'.key) /\ last'.key.name # "paste-end"
             THEN DragExtends
             ELSE /\ isDragging' /\ dragBuffer' = dragBuffer
                  /\ draggingTimer' = draggingTimer
     /\ last'.op = "dragTimeout" => DragFlushes]_vars

\* A quote and then "a" were held, and the drag timer has just broadcast
\* them as one paste event.
C21_Witness ==
  /\ last.op = "dragTimeout"
  /\ Len(emitted) = last.before + 1
  /\ emitted[Len(emitted)] = PasteEvent(SINGLE_QUOTE \o <<"a">>)
  /\ ~isDragging /\ dragBuffer = <<>>

\* A chunk that is a special key reaches the paste heuristic while the
\* heuristic buffer holds text.
SpecialKeyOnHeldPaste ==
  /\ last'.op = "data" /\ nInputs' = nInputs + 1
  /\ isWindows /\ usePassthrough /\ ~isPaste
  /\ windowsPasteBuffer # <<>>
  /\ isSpecialKey(last'.data)

\* C22 (Heuristic flush before special key): on the paste-heuristic path, a
\* special-key chunk arriving while the heuristic buffer holds text has the
\* buffered text broadcast as one paste event ahead of every event of the
\* special key, with the debounce timer cancelled and the buffer emptied, so
\* that the timer cannot broadcast the text again.
C22_HeuristicFlush ==
  [][SpecialKeyOnHeldPaste
       => /\ Len(NewEvents) >= 1
          /\ NewEvents[1] = PasteEvent(windowsPasteBuffer)
          /\ \A i \in 2..Len(NewEvents) : NewEvents[i] # PasteEvent(windowsPasteBuffer)
          /\ windowsPasteTimer' = 0
          /\ windowsPasteBuffer' = <<>>
          /\ ~windowsPasteActive']_vars

\* "hello" was held by the heuristic when ESC[A arrived: the paste event for
\* hello was broadcast first, the up arrow after it, and no timer is left.
C22_Witness ==
  /\ last.op = "data" /\ last.data = <<ESC, "[", "A">>
  /\ Len(emitted) = last.before + 2
  /\ emitted[last.before + 1] = PasteEvent(<<"h", "e", "l", "l", "o">>)
  /\ emitted[last.before + 2].name = "up"
  /\ windowsPasteTimer = 0 /\ windowsPasteBuffer = <<>>

Subscribed(h) == PosIn(subscribers, h) # 0

\* n times the event e.
Copies(e, n) == [i \in 1..n |-> e]

BroadcastStep == last'.op = "broadcast" /\ Len(emitted') = Len(emitted) + 1

\* The events seen are events emitted, in the order of their emission; with
\* `again`, an event may be seen more than once in a row.
RECURSIVE InOrder(_, _, _)
InOrder(seen, events, again) ==
  IF seen = <<>> THEN TRUE
  ELSE IF events = <<>> THEN FALSE
  ELSE IF Head(seen) = Head(events)
    THEN InOrder(Tail(seen), IF again THEN events ELSE Tail(events), again)
  ELSE InOrder(seen, Tail(events), again)

\* What holds of every step: subscribe and unsubscribe deliver nothing, no
\* handler is entered twice in the Set, and each handler has seen emitted
\* events in emission order.
SubscriptionSteps(again) ==
  /\ last'.op \in {"subscribe", "unsubscribe"} => delivered' = delivered
  /\ \A i, j \in 1..Len(subscribers') : subscribers'[i] = subscribers'[j] => i = j
  /\ \A h \in Handlers : InOrder(delivered'[h], emitted', again)

Undebugged(s) ==
  [s EXCEPT !.debugKeystrokeLogging = FALSE, !.debugMode = FALSE,
            !.pasteDebugStream = FALSE, !.debugLog = <<>>]

\* The step ends in state s as far as events, buffers, flags, timers and
\* subscribers go; the debug settings and the debug log are left out.
SameButLogs(s) == Undebugged(s) = Undebugged(Cur')

\* C24: debug non-interference. Every step of the provider, whatever the debug
\* settings (debugKeystrokeLogging, the config's debug mode, the paste debug
\* log open or not) and whatever was logged so far, broadcasts the events and
\* reaches the buffer, flag and timer state that the same handler or callback
\* reaches on the same input with every debug setting off. Two runs on the
\* same inputs and timer schedule that differ only in the debug settings
\* therefore stay equal, step for step, in all but their logs.
C24_DebugNonInterference ==
  [][/\ last'.op = "keypress"
          => SameButLogs(handleKeypress(Undebugged(Cur), last'.key, nInputs'))
     /\ last'.op = "data"
          => \A fastData \in BOOLEAN, fastWindows \in BOOLEAN :
               handleRawKeypress(Cur, last'.data, nInputs', fastData, fastWindows) = Cur'
                 => SameButLogs(handleRawKeypress(Undebugged(Cur), last'.data, nInputs',
                                                  fastData, fastWindows))
     /\ last'.op = "kittyTimeout" => SameButLogs(kittyTimeoutCallback(Undebugged(Cur)))
     /\ last'.op = "backslashTimeout"
          => SameButLogs(backslashTimeoutCallback(Undebugged(Cur), Head(backslashTimers)))
     /\ last'.op = "dragTimeout" => SameButLogs(dragTimeoutCallback(Undebugged(Cur)))
     /\ last'.op = "windowsPasteTimeout"
          => SameButLogs(windowsPasteTimeoutCallback(Undebugged(Cur)))
     /\ last'.op = "teardown" => SameButLogs(cleanup(Undebugged(Cur)))
    ]_vars

\* Both logs were written while a buffered escape sequence was parsed and
\* broadcast: the keystroke log reports the parse (line 732), the paste debug
\* log a raw chunk (line 858).
C24_Witness ==
  /\ debugKeystrokeLogging
  /\ \E i \in 1..Len(debugLog) : debugLog[i] = 732
  /\ \E i \in 1..Len(debugLog) : debugLog[i] = 858
  /\ \E i \in 1..Len(emitted) : emitted[i].kittyProtocol

\* The contiguous pieces of a text that end where a paste-end marker begins,
\* the empty one included.
Pieces(text) ==
  {SubSeq(text, i, j - 1) : i \in 1..(Len(text) + 1),
                            j \in {k \in 1..Len(text) : StartsWith(Slice(text, k), PASTE_MODE_SUFFIX)}}

\* No paste marker lies inside the text.
MarkerFree(text) ==
  IndexOf(text, PASTE_MODE_PREFIX, 1) = 0 /\ IndexOf(text, PASTE_MODE_SUFFIX, 1) = 0

\* The sequence is payload that one of the three accumulators captured: the
\* heuristic buffer flushed by its timer or by the next chunk, the drag buffer
\* flushed by its timer or the cleanup, or the bracketed-paste payload: what
\* pasteBuffer held plus marker-free text of the chunk being scanned, up to
\* its paste-end marker.
Captured(sequence) ==
  \/ /\ last'.op \in {"data", "windowsPasteTimeout"}
     /\ windowsPasteBuffer # <<>>
     /\ sequence = windowsPasteBuffer
  \/ /\ last'.op \in {"dragTimeout", "teardown"}
     /\ isDragging
     /\ sequence = dragBuffer
  \/ /\ last'.op = "teardown"
     /\ isPaste
     /\ sequence = pasteBuffer
  \/ /\ last'.op = "data"
     /\ \E piece \in Pieces(partialDataBuffer \o last'.data) :
          /\ MarkerFree(piece)
          /\ sequence \in {pasteBuffer \o piece, piece}

\* C25: paste flag. Every event broadcast with paste = true has name '' and a
\* sequence that is captured payload (bracketed paste, drag or heuristic
\* accumulation); every event that carries a name or was parsed from an escape
\* sequence, and every event broadcast by the escape-sequence timeout or the
\* backslash timeout, has paste = false.
C25_PasteFlag ==
  [][\A i \in 1..Len(NewEvents) :
       /\ NewEvents[i].paste
            => /\ NewEvents[i].name = ""
               /\ ~NewEvents[i].kittyProtocol
               /\ Captured(NewEvents[i].sequence)
       /\ last'.op \in {"kittyTimeout", "backslashTimeout"} => ~NewEvents[i].paste
    ]_vars

\* On Windows "hello" was flushed by the heuristic timer and a quote by the
\* drag timer, both as paste events, and the key a went through unflagged.
C25_Witness ==
  /\ \E i \in 1..Len(emitted) : emitted[i] = PasteEvent(<<"h", "e", "l", "l", "o">>)
  /\ \E i \in 1..Len(emitted) : emitted[i].paste /\ emitted[i].sequence = SINGLE_QUOTE
  /\ \E i \in 1..Len(emitted) : emitted[i].name = "a" /\ ~emitted[i].paste

\* What resultCallback was told for a call of export, given how its write
\* stands: nothing while the write is pending, SUCCESS once it resolved,
\* FAILED with the error once it was rejected or the entries could not be built.
Reported(e) ==
  IF e.entries = "throws" THEN <<ExportResult(FAILED, "entries")>>
  ELSE IF e.write = "resolved" THEN <<ExportResult(SUCCESS, "none")>>
  ELSE IF e.write = "rejected" THEN <<ExportResult(FAILED, "write")>>
  ELSE <<>>

\* C26: for every call of export resultCallback is invoked exactly
\* once: with FAILED before export returns when building the entries throws,
\* with SUCCESS when the write resolves, with FAILED and the error when the
\* write rejects, and not a second time.
C26_ReportedOnce ==
  \A id \in 1..Len(exports) : exports[id].calls = Reported(exports[id])

\* No resultCallback of the run throws.
CallbacksReturn == \A id \in 1..Len(exports) : exports[id].callback = "returns"

\* C27: in a run whose resultCallbacks return normally, a call of forceFlush
\* or shutdown is resolved only when every write that was in flight when it
\* was called has settled, is resolved from the start when none was, and is
\* never rejected.
C27_FlushSettled ==
  CallbacksReturn =>
    \A j \in 1..Len(flushes) :
      /\ flushes[j].state = "resolved"
           => \A id \in flushes[j].inFlight : exports[id].write # "pending"
      /\ flushes[j].inFlight = {} => flushes[j].state = "resolved"
      /\ flushes[j].state # "rejected"

\* The step is a call of updateSettingsFilePreservingFormat.
UpdateStep == settingsCall'.op = "update"

\* C28: a call that finds the settings file present with content that cannot
\* be parsed does not throw and leaves the content exactly as it was.
C28_CorruptedFile ==
  [][UpdateStep /\ settingsFile.exists /\ ~parse(settingsFile.content).ok
       => settingsFile' = settingsFile /\ ~settingsCall'.threw]_vars

\* The call found a file whose closing brace is missing, reported the parse
\* error on console.error and left the file as it found it.
C28_Witness ==
  /\ settingsCall.op = "update" /\ settingsCall.existed
  /\ settingsCall.before = <<"{", "_", "model", ":", "pro", "_">>
  /\ settingsCall.updates = Obj(<<Member("model", Str("flash"))>>)
  /\ settingsCall.errors = 2
  /\ settingsFile = File(settingsCall.before)

\* The keys of an object's members.
Keys_(object) == {object.members[i].key : i \in 1..Len(object.members)}

\* The value of the mcpServers member of an object, an empty string when it has none.
McpServers(object) ==
  IF KeyIndex(object.members, "mcpServers") # 0
  THEN object.members[KeyIndex(object.members, "mcpServers")].value
  ELSE Str("")

\* C29: when the file holds an mcpServers object and the updates contain one,
\* every server of the file that the updates do not name is absent from the
\* written file, and every server named on both sides is kept.
C29_McpServersDeletion ==
  [][UpdateStep /\ settingsFile.exists /\ parse(settingsFile.content).ok
       /\ McpServers(parse(settingsFile.content).value).isObject
       /\ McpServers(settingsCall'.updates).isObject
       => \A server \in Keys_(McpServers(parse(settingsFile.content).value)) :
            server \in Keys_(McpServers(parse(settingsFile'.content).value))
              <=> server \in Keys_(McpServers(settingsCall'.updates))]_vars

\* C30 (Timer cancel-and-replace): each guarded wait has at most one timer
\* pending. The escape-sequence, drag and heuristic waits hold their timer in
\* one handle that is cleared before it is set again; the timers scheduled
\* for the backslash window are the ones counted here, and a pending one is
\* the timer the handle names, so that it can be cancelled.
C30_OneTimerPerWait ==
  /\ Len(backslashTimers) <= 1
  /\ backslashTimers # <<>> => backslashTimeout = Head(backslashTimers).id

\* A notification that reaches the escape accumulation of handleKeypress
\* (lines 698-716) and is appended to the escape-sequence buffer.
ReachesAccumulation ==
  /\ KeypressStep /\ kittyProtocolEnabled
  /\ ~isPaste /\ ~isDragging /\ ~waitingForEnterAfterBackslash
  /\ last'.key.name \notin {"paste-start", "paste-end", "up", "down", "left", "right"}
  /\ ~IsQuote(last'.key) /\ ~IsCtrlC(last'.key)
  /\ last'.key.sequence # <<"\\">>
  /\ ~(Len(last'.key.sequence) = 1 /\ last'.key.sequence[1] \in DOMAIN ALT_KEY_CHARACTER_MAP)
  /\ ~\E m \in Framing : StartsWith(last'.key.sequence, m)
  /\ (kittySequenceBuffer # <<>> \/ StartsWith(last'.key.sequence, <<ESC>>))

\* The buffer the classification loop of the step starts from.
Accumulated == kittySequenceBuffer \o last'.key.sequence

\* The buffer from its first ESC after position 0 on.
FromNextEsc(buffer) == Slice(buffer, IndexOf(buffer, <<ESC>>, 2))

ActiveBuffers ==
  {b \in {"escape", "paste", "drag", "heuristic"} :
     \/ b = "escape" /\ kittySequenceBuffer # <<>>
     \/ b = "paste" /\ (isPaste \/ pasteBuffer # <<>>)
     \/ b = "drag" /\ (isDragging \/ dragBuffer # <<>>)
     \/ b = "heuristic" /\ (windowsPasteActive \/ windowsPasteBuffer # <<>>)}

\* C32 (Mutual exclusion of accumulation buffers): in every reachable state
\* at most one of the escape-sequence buffer, the paste payload buffer, the
\* drag buffer and the paste-heuristic buffer is active.
C32_MutualExclusion == Cardinality(ActiveBuffers) <= 1

\* C33 (Buffer/timer coupling): in every state the escape-sequence timeout
\* is scheduled if and only if the escape-sequence buffer is non-empty.
C33_BufferTimerCoupling == (kittySequenceTimeout # 0) <=> (kittySequenceBuffer # <<>>)

\* ESC was held, ESC[1;5 arrived and took its place: the unfinished sequence
\* is in the buffer and the timeout scheduled by the second input is pending.
C33_Witness ==
  /\ last.op = "keypress" /\ nInputs = 2
  /\ kittySequenceBuffer = Pending
  /\ kittySequenceTimeout = 2

\* C34 (Shape of the pending escape buffer): between handler calls the
\* escape-sequence buffer is empty, or it starts with ESC, holds no other
\* ESC, does not parse as a complete sequence, could still become one, and is
\* at most MAX_KITTY_SEQUENCE_LENGTH characters long.
C34_PendingBufferShape ==
  \/ kittySequenceBuffer = <<>>
  \/ /\ Head(kittySequenceBuffer) = ESC
     /\ IndexOf(kittySequenceBuffer, <<ESC>>, 2) = 0
     /\ ~parseKittyPrefix(kittySequenceBuffer).matched
     /\ couldBeKittySequence(kittySequenceBuffer)
     /\ Len(kittySequenceBuffer) <= MAX_KITTY_SEQUENCE_LENGTH

\* An unfinished sequence of exactly MAX_KITTY_SEQUENCE_LENGTH characters is
\* held behind its timeout.
C34_Witness ==
  /\ last.op = "keypress"
  /\ kittySequenceBuffer = LongFragment
  /\ kittySequenceTimeout = nInputs

\* C35 (Termination of peel-and-continue): every iteration of the
\* classification loop strictly shortens the remaining buffer or leaves the
\* loop through the break that follows the scheduling of the timeout, and
\* for every buffer the loop is eventually left.
C35_LoopTerminates ==
  /\ [][loopExit = "running"
          => \/ Len(loopBuffer') < Len(loopBuffer)
             \/ loopExit' = "break" /\ loopBuffer' = loopBuffer]_vars
  /\ <>(loopExit # "running")

\* Garbage was dropped in front of a later ESC and the loop then left through
\* the break, with the unfinished sequence from that ESC on remaining.
C35_Witness ==
  /\ loopExit = "break" /\ iterations = 2
  /\ loopBuffer = <<ESC, "[", "1">>

\* A Ctrl+C, Return, arrow or escape-sequence notification (the focus reports
\* and paste markers, which handleKeypress takes before its drag branch, are
\* not among them).
IsControlKey(key) ==
  /\ key.name \notin {"paste-start", "paste-end"}
  /\ ~\E m \in Framing : StartsWith(key.sequence, m)
  /\ \/ IsCtrlC(key)
     \/ key.name \in {"return", "up", "down", "left", "right"}
     \/ StartsWith(key.sequence, <<ESC>>)

\* C36 (Drag absorbs control keys): while drag accumulation is active outside
\* paste mode, a Ctrl+C, Return, arrow or escape-sequence notification
\* broadcasts nothing, leaves the escape-sequence buffer, its timeout and the
\* backslash state unchanged, is appended to the drag buffer and restarts the
\* drag timer.
C36_DragAbsorbs ==
  [][(KeypressStep /\ isDragging /\ ~isPaste /\ IsControlKey(last'.key))
     => (/\ NewEvents = <<>>
         /\ kittySequenceBuffer' = kittySequenceBuffer
         /\ kittySequenceTimeout' = kittySequenceTimeout
         /\ waitingForEnterAfterBackslash' = waitingForEnterAfterBackslash
         /\ backslashTimeout' = backslashTimeout
         /\ backslashTimers' = backslashTimers
         /\ isDragging'
         /\ dragBuffer' = dragBuffer \o last'.key.sequence
         /\ draggingTimer' = nInputs')]_vars

\* A quote started the drag accumulation and a Ctrl+C followed: nothing has
\* been broadcast, the drag buffer holds both and the timer is the one the
\* Ctrl+C scheduled.
C36_Witness ==
  /\ last.op = "keypress" /\ IsCtrlC(last.key) /\ last.key.ctrl
  /\ nInputs = 2 /\ emitted = <<>>
  /\ isDragging /\ dragBuffer = SINGLE_QUOTE \o <<"^C">>
  /\ draggingTimer = 2

IsArrow(key) == key.name \in {"up", "down", "left", "right"}

\* C37 (Arrow passthrough frame): outside paste and drag mode a notification
\* named up, down, left or right is broadcast unchanged within the call, as
\* the last event of the step, and the escape-sequence buffer and its
\* timeout are left exactly as they were.
C37_ArrowPassthrough ==
  [][(KeypressStep /\ ~isPaste /\ ~isDragging /\ IsArrow(last'.key))
     => (/\ NewEvents # <<>>
         /\ NewEvents[Len(NewEvents)] = last'.key
         /\ \A i \in 1..(Len(NewEvents) - 1) : NewEvents[i] = RawEvent(<<"\\">>)
         /\ kittySequenceBuffer' = kittySequenceBuffer
         /\ kittySequenceTimeout' = kittySequenceTimeout)]_vars

\* The unfinished ESC[1;5 was held when the up arrow arrived: the arrow is the
\* only event broadcast, the buffer and the timeout of the first input stay.
C37_Witness ==
  /\ last.op = "keypress" /\ last.key.name = "up" /\ nInputs = 2
  /\ emitted = <<Note("up", <<ESC, "[", "A">>)>>
  /\ kittySequenceBuffer = Pending
  /\ kittySequenceTimeout = 1

\* A notification whose sequence begins with ESC, other than the paste and
\* focus markers, the keys named after an arrow and Ctrl+C.
EscLeading(key) ==
  /\ StartsWith(key.sequence, <<ESC>>)
  /\ ~\E m \in Framing : StartsWith(key.sequence, m)
  /\ key.name \notin {"paste-start", "paste-end"}
  /\ ~IsArrow(key) /\ ~IsCtrlC(key)

\* Every event of the step is a parsed key or a raw event with name '' and
\* all modifiers false.
ParsedOrRaw ==
  \A i \in 1..Len(NewEvents) :
    \/ NewEvents[i].kittyProtocol /\ NewEvents[i] = parseKittyPrefix(NewEvents[i].sequence).key
    \/ NewEvents[i] = RawEvent(NewEvents[i].sequence)

\* C38 as stated: with protocol parsing enabled and outside paste and drag
\* mode, a notification whose sequence begins with ESC is held in the
\* escape-sequence buffer or broadcast as parsed keys or raw events, whatever
\* name or meta flag the tokenizer supplied.
C38_EscLeadingAsStated ==
  [][(KeypressStep /\ kittyProtocolEnabled /\ ~isPaste /\ ~isDragging
        /\ EscLeading(last'.key))
     => ParsedOrRaw]_vars

\* C38 (ESC-leading input never reaches passthrough), amended: the same,
\* unless the notification is named 'return' and a backslash is waiting for
\* Return, in which case the backslash continuation broadcasts it as
\* shift+Return.
C38_EscLeading ==
  [][(KeypressStep /\ kittyProtocolEnabled /\ ~isPaste /\ ~isDragging
        /\ EscLeading(last'.key)
        /\ ~(last'.key.name = "return" /\ waitingForEnterAfterBackslash))
     => ParsedOrRaw]_vars

\* ESC followed by a carriage return, named 'return' with meta set by the
\* tokenizer, has been broadcast as a raw event with name '' and no modifier.
C38_Witness ==
  /\ kittyProtocolEnabled
  /\ last.op = "keypress" /\ last.key.name = "return" /\ last.key.meta
  /\ nInputs = 1
  /\ emitted = <<RawEvent(<<ESC, "\r">>)>>
  /\ kittySequenceBuffer = <<>>

\* C39 (Pending-write tracking): pendingWrites holds exactly the writes
\* started by export that have not settled, each of them once.
C39_PendingWrites ==
  /\ {pendingWrites[i] : i \in 1..Len(pendingWrites)}
       = {id \in 1..Len(exports) : exports[id].write = "pending"}
  /\ \A i, j \in 1..Len(pendingWrites) : pendingWrites[i] = pendingWrites[j] => i = j

\* C40 (Unmatched paste-end): a paste-end notification broadcasts exactly one
\* event, with paste=true and the payload as its sequence, and leaves paste
\* mode off; when no paste-start preceded it or the payload is empty the
\* sequence of that event is the empty string.
C40_UnmatchedPasteEnd ==
  [][(KeypressStep /\ last'.key.name = "paste-end")
     => (/\ Len(NewEvents) = 1
         /\ NewEvents[1] = PasteEvent(pasteBuffer)
         /\ NewEvents[1].paste
         /\ (~isPaste \/ pasteBuffer = <<>>) => NewEvents[1].sequence = <<>>
         /\ ~isPaste' /\ pasteBuffer' = <<>>)]_vars

\* The first notification is a paste-end: one paste event with an empty
\* sequence has been broadcast.
C40_Witness ==
  /\ last.op = "keypress" /\ last.key.name = "paste-end" /\ nInputs = 1
  /\ emitted = <<PasteEvent(<<>>)>>
  /\ ~isPaste
====
